---- MODULE Spec2Model ----
(***************************************************************************)
(* TeaBankBot ledger: the account store, the transaction store and the     *)
(* bank service (src/src/repositories, src/src/services/bank_service.py).  *)
(*                                                                         *)
(* State: the two SQLite tables, Accounts and Transactions, as sequences   *)
(* of rows in rowid order (AUTOINCREMENT ids, no row is ever deleted, so   *)
(* a row's id is its position).  Every service method is a pure operator   *)
(* from (tables, arguments) to (tables, error, return value), translated   *)
(* statement by statement; the action of a method applies the operator to  *)
(* the current tables with arguments drawn from bounded sets.              *)
(*                                                                         *)
(* Numbers.  Amounts are Python ints / SQLite 64-bit INTEGERs and the      *)
(* configured ceilings (10^12, 10^11) do not fit TLC's 32-bit integers, so *)
(* an amount is a wide integer [hi, lo] of value hi * 10^9 + lo with       *)
(* 0 <= lo < 10^9; WAdd, WSub, WLt, ... are exact integer arithmetic on    *)
(* that form.  No reachable balance in the model comes near 2^63.          *)
(*                                                                         *)
(* Strings.  User ids, account numbers and names are sequences of          *)
(* one-character strings, so that user_id[-9:] is computed, not assumed.   *)
(* Python's None is <<>> for an Optional value <<v>>.  The Time column     *)
(* (datetime.now()) is read by no operation and is left out.               *)
(***************************************************************************)
EXTENDS Integers, Sequences, FiniteSets, TLC

\* accounts, txns: the two tables.  inflight: the store calls that the
\* service call in progress has still to make (empty between calls).
\* sessions: for every audit or recall conversation of the bot, the ids of
\* the snapshot it has still to work through.  interrupts: how many calls
\* were stopped between two of their store calls.
VARIABLES accounts, txns, inflight, sessions, interrupts

vars == <<accounts, txns, inflight, sessions, interrupts>>

----------------------------------------------------------------------------
(* Wide integers *)

Radix == 10^9

W(h, l) == [hi |-> h, lo |-> l]

\* the wide integer of a small integer n
Wide(n) == [hi |-> n \div Radix, lo |-> n % Radix]

WAdd(a, b) ==
    LET s == a.lo + b.lo
    IN  [hi |-> a.hi + b.hi + (s \div Radix), lo |-> s % Radix]

WNeg(a) ==
    IF a.lo = 0 THEN [hi |-> 0 - a.hi, lo |-> 0]
    ELSE [hi |-> (0 - a.hi) - 1, lo |-> Radix - a.lo]

WSub(a, b) == WAdd(a, WNeg(b))

WLt(a, b) == a.hi < b.hi \/ (a.hi = b.hi /\ a.lo < b.lo)

WGt(a, b) == WLt(b, a)

Zero == Wide(0)

----------------------------------------------------------------------------
(* Configuration *)

\* BankService.__init__ defaults: max_amount 10^12, min_balance -10^9
max_amount == W(1000, 0)

min_balance == W(-1, 0)

\* the local max_request_amount of BankService.request: 10^11
max_request_amount == W(100, 0)

----------------------------------------------------------------------------
(* Bounds of the model *)

\* the transaction log holds at most MaxTxns rows
MaxTxns == 2

\* at most this many calls are interrupted between two store calls
MaxInterrupts == 1

----------------------------------------------------------------------------
(* Python values *)

None == <<>>

Some(v) == <<v>>

\* defect variant: user_id[:9], the first 9 characters
First9(s) == IF Len(s) <= 9 THEN s ELSE SubSeq(s, 1, 9)

\* user_id[-9:] of str
Last9(s) == IF Len(s) <= 9 THEN s ELSE SubSeq(s, Len(s) - 8, Len(s))

\* seq[:n] for n >= 0; SQLite's LIMIT n returns every row when n < 0
Limit(seq, n) ==
    IF n < 0 \/ n >= Len(seq) THEN seq ELSE SubSeq(seq, 1, n)

Reverse(seq) == [i \in 1..Len(seq) |-> seq[Len(seq) + 1 - i]]

----------------------------------------------------------------------------
(* models: Account, Transaction *)

Account(id, account_no, name, amount, pending, share) ==
    [id |-> id, account_no |-> account_no, name |-> name,
     amount |-> amount, pending |-> pending, share |-> share]

Transaction(id, type, sender_account, receiver_account, status, amount, operator, memo) ==
    [id |-> id, type |-> type, sender_account |-> sender_account,
     receiver_account |-> receiver_account, status |-> status,
     amount |-> amount, operator |-> operator, memo |-> memo]

\* Transaction.create_pending: id None (0 here), status pending, operator None
create_pending(type, sender, receiver, amount, memo) ==
    Transaction(0, type, sender, receiver, "pending", amount, None, memo)

\* models/exceptions.py: each exception class with its base class
ErrorBase ==
    [e \in {"AccountNotFoundError", "AccountAlreadyExistsError",
            "InsufficientBalanceError", "InvalidAmountError",
            "TransactionNotFoundError", "InvalidTransactionStatusError",
            "InvalidTransferError", "UnauthorizedError"} |-> "BankError"]
    @@ ("BankError" :> "Exception")

----------------------------------------------------------------------------
(* AccountRepository, on the Accounts table (a sequence of rows) *)

\* SELECT ... WHERE Account = ?, fetchone(): <<row>> or None
find_by_account_no(rows, account_no) ==
    LET hit == SelectSeq(rows, LAMBDA r : r.account_no = account_no)
    IN  IF hit = <<>> THEN None ELSE Some(Head(hit))

exists(rows, account_no) ==
    \E i \in DOMAIN rows : rows[i].account_no = account_no

\* INSERT under the UNIQUE constraint on Account: the new table, and whether
\* sqlite3.IntegrityError became AccountAlreadyExistsError
AccountRepository_create(rows, account) ==
    IF \E i \in DOMAIN rows : rows[i].account_no = account.account_no
    THEN [rows |-> rows, err |-> "AccountAlreadyExistsError"]
    ELSE [rows |-> Append(rows, [account EXCEPT !.id = Len(rows) + 1]),
          err |-> "none"]

\* defect variant: the WHERE clause is missing
update_pending_no_where(rows, account_no, delta) ==
    [i \in DOMAIN rows |-> [rows[i] EXCEPT !.pending = WAdd(@, delta)]]

\* defect variant: SET Pending = ? instead of Pending + ?
update_pending_overwrite(rows, account_no, delta) ==
    [i \in DOMAIN rows |->
        IF rows[i].account_no = account_no
        THEN [rows[i] EXCEPT !.pending = delta]
        ELSE rows[i]]

\* UPDATE Accounts SET Pending = Pending + ? WHERE Account = ?
update_pending(rows, account_no, delta) ==
    [i \in DOMAIN rows |->
        IF rows[i].account_no = account_no
        THEN [rows[i] EXCEPT !.pending = WAdd(@, delta)]
        ELSE rows[i]]

\* defect variant: SET Amount = ? in place of Amount = Amount + ?
update_amount_overwrite(rows, account_no, delta) ==
    [i \in DOMAIN rows |->
        IF rows[i].account_no = account_no
        THEN [rows[i] EXCEPT !.amount = delta]
        ELSE rows[i]]

\* UPDATE Accounts SET Amount = Amount + ? WHERE Account = ?
update_amount(rows, account_no, delta) ==
    [i \in DOMAIN rows |->
        IF rows[i].account_no = account_no
        THEN [rows[i] EXCEPT !.amount = WAdd(@, delta)]
        ELSE rows[i]]

\* defect variant: the Amount column is left out of the UPDATE
update_pending_and_amount_pending_only(rows, account_no, pending_delta, amount_delta) ==
    [i \in DOMAIN rows |->
        IF rows[i].account_no = account_no
        THEN [rows[i] EXCEPT !.pending = WAdd(@, pending_delta)]
        ELSE rows[i]]

\* UPDATE Accounts SET Pending = Pending + ?, Amount = Amount + ? WHERE ...
update_pending_and_amount(rows, account_no, pending_delta, amount_delta) ==
    [i \in DOMAIN rows |->
        IF rows[i].account_no = account_no
        THEN [rows[i] EXCEPT !.pending = WAdd(@, pending_delta),
                             !.amount = WAdd(@, amount_delta)]
        ELSE rows[i]]

----------------------------------------------------------------------------
(* TransactionRepository, on the Transactions table *)

\* defect variant: the id of the last row is given again
TransactionRepository_create_reuses_id(rows, txn) ==
    Append(rows, [txn EXCEPT !.id = IF rows = <<>> THEN 1 ELSE Len(rows)])

\* INSERT; cursor.lastrowid is the length of the new table
TransactionRepository_create(rows, txn) ==
    Append(rows, [txn EXCEPT !.id = Len(rows) + 1])

\* defect variant: WHERE TransactionID <= ? ORDER BY TransactionID DESC
find_by_id_at_most(rows, txn_id) ==
    LET hit == SelectSeq(rows, LAMBDA r : r.id <= txn_id)
    IN  IF hit = <<>> THEN None ELSE Some(hit[Len(hit)])

\* SELECT ... WHERE TransactionID = ?, fetchone(): <<row>> or None
find_by_id(rows, txn_id) ==
    LET hit == SelectSeq(rows, LAMBDA r : r.id = txn_id)
    IN  IF hit = <<>> THEN None ELSE Some(Head(hit))

\* defect variant: WHERE Status <> 'done'
find_pending_transactions_not_done(rows, limit) ==
    Limit(SelectSeq(rows, LAMBDA r : r.status # "done"), limit)

\* WHERE Status = 'pending' LIMIT ?  (rowid order)
find_pending_transactions(rows, limit) ==
    Limit(SelectSeq(rows, LAMBDA r : r.status = "pending"), limit)

\* defect variant: the Status <> 'denied' condition is left out
find_by_account_with_denied(rows, account_no, limit) ==
    Limit(Reverse(SelectSeq(rows,
              LAMBDA r : r.sender_account = account_no
                         \/ r.receiver_account = account_no)),
          limit)

\* WHERE (sender = ? OR receiver = ?) AND Status <> 'denied'
\* ORDER BY TransactionID DESC LIMIT ?
find_by_account(rows, account_no, limit) ==
    Limit(Reverse(SelectSeq(rows,
              LAMBDA r : (r.sender_account = account_no
                          \/ r.receiver_account = account_no)
                         /\ r.status # "denied")),
          limit)

\* defect variant: the UPDATE without its WHERE clause
update_status_no_where(rows, txn_id, status, operator) ==
    [i \in DOMAIN rows |->
        [rows[i] EXCEPT !.status = status, !.operator = Some(operator)]]

\* defect variant: UPDATE Transactions SET Status = ? WHERE TransactionID = ?
update_status_keeps_operator(rows, txn_id, status, operator) ==
    [i \in DOMAIN rows |->
        IF rows[i].id = txn_id
        THEN [rows[i] EXCEPT !.status = status]
        ELSE rows[i]]

\* UPDATE Transactions SET Status = ?, Operator = ? WHERE TransactionID = ?
update_status(rows, txn_id, status, operator) ==
    [i \in DOMAIN rows |->
        IF rows[i].id = txn_id
        THEN [rows[i] EXCEPT !.status = status, !.operator = Some(operator)]
        ELSE rows[i]]

----------------------------------------------------------------------------
(* BankService.  A method's outcome: the tables it leaves, the exception  *)
(* it raised ("none" when it returned) and the value it returned.          *)

Raise(acc, txn, error) ==
    [accounts |-> acc, txns |-> txn, err |-> error, ret |-> None]

Return(acc, txn, value) ==
    [accounts |-> acc, txns |-> txn, err |-> "none", ret |-> value]

get_account_no(user_id) == Last9(user_id)

\* defect variant: the raw user id is used as the account number
create_account_raw_user_id(acc, txn, user_id, name) ==
    LET account_no == user_id
    IN  IF exists(acc, account_no)
        THEN Raise(acc, txn, "AccountAlreadyExistsError")
        ELSE LET new_account == Account(0, account_no, name, Zero, Zero, 0)
                 created == AccountRepository_create(acc, new_account)
             IN  IF created.err # "none"
                 THEN Raise(acc, txn, created.err)
                 ELSE Return(created.rows, txn,
                             find_by_account_no(created.rows, account_no))

\* defect variant: an existing account is renamed instead of refused
create_account_renames(acc, txn, user_id, name) ==
    LET account_no == get_account_no(user_id)
    IN  IF exists(acc, account_no)
        THEN LET renamed == [i \in DOMAIN acc |->
                               IF acc[i].account_no = account_no
                               THEN [acc[i] EXCEPT !.name = name]
                               ELSE acc[i]]
             IN  Return(renamed, txn, find_by_account_no(renamed, account_no))
        ELSE LET new_account == Account(0, account_no, name, Zero, Zero, 0)
                 created == AccountRepository_create(acc, new_account)
             IN  IF created.err # "none"
                 THEN Raise(acc, txn, created.err)
                 ELSE Return(created.rows, txn,
                             find_by_account_no(created.rows, account_no))

create_account(acc, txn, user_id, name) ==
    LET account_no == get_account_no(user_id)
    IN  IF exists(acc, account_no)
        THEN Raise(acc, txn, "AccountAlreadyExistsError")
        ELSE LET new_account == Account(0, account_no, name, Zero, Zero, 0)
                 created == AccountRepository_create(acc, new_account)
             IN  IF created.err # "none"
                 THEN Raise(acc, txn, created.err)
                 ELSE Return(created.rows, txn,
                             find_by_account_no(created.rows, account_no))

\* defect variant: the pair is returned as (pending, amount)
get_balance_swapped(acc, txn, user_id) ==
    LET account_no == get_account_no(user_id)
        account == find_by_account_no(acc, account_no)
    IN  IF account = None
        THEN Raise(acc, txn, "AccountNotFoundError")
        ELSE Return(acc, txn, <<account[1].pending, account[1].amount>>)

get_balance(acc, txn, user_id) ==
    LET account_no == get_account_no(user_id)
        account == find_by_account_no(acc, account_no)
    IN  IF account = None
        THEN Raise(acc, txn, "AccountNotFoundError")
        ELSE Return(acc, txn, <<account[1].amount, account[1].pending>>)

\* defect variant: the deposit is credited to Amount at once
deposit_credits_amount(acc, txn, user_id, amount, memo) ==
    LET account_no == get_account_no(user_id)
        account == find_by_account_no(acc, account_no)
    IN  IF account = None THEN Raise(acc, txn, "AccountNotFoundError")
        ELSE IF WLt(amount, Zero) THEN Raise(acc, txn, "InvalidAmountError")
        ELSE IF amount = Zero THEN Raise(acc, txn, "InvalidAmountError")
        ELSE IF WGt(amount, max_amount)
        THEN Raise(acc, txn, "InvalidAmountError")
        ELSE LET transaction ==
                     create_pending("deposit", account_no, account_no,
                                    amount, memo)
                 txn1 == TransactionRepository_create(txn, transaction)
                 txn_id == Len(txn1)
                 acc1 == update_amount(acc, account_no, amount)
             IN  Return(acc1, txn1, find_by_id(txn1, txn_id))

\* defect variant: the amount == 0 check is missing
deposit_accepts_zero(acc, txn, user_id, amount, memo) ==
    LET account_no == get_account_no(user_id)
        account == find_by_account_no(acc, account_no)
    IN  IF account = None THEN Raise(acc, txn, "AccountNotFoundError")
        ELSE IF WLt(amount, Zero) THEN Raise(acc, txn, "InvalidAmountError")
        ELSE IF WGt(amount, max_amount)
        THEN Raise(acc, txn, "InvalidAmountError")
        ELSE LET transaction ==
                     create_pending("deposit", account_no, account_no,
                                    amount, memo)
                 txn1 == TransactionRepository_create(txn, transaction)
                 txn_id == Len(txn1)
                 acc1 == update_pending(acc, account_no, amount)
             IN  Return(acc1, txn1, find_by_id(txn1, txn_id))

\* defect variant: the amount is validated before the account is looked up
deposit_validates_amount_first(acc, txn, user_id, amount, memo) ==
    LET account_no == get_account_no(user_id)
        account == find_by_account_no(acc, account_no)
    IN  IF WLt(amount, Zero) THEN Raise(acc, txn, "InvalidAmountError")
        ELSE IF amount = Zero THEN Raise(acc, txn, "InvalidAmountError")
        ELSE IF WGt(amount, max_amount)
        THEN Raise(acc, txn, "InvalidAmountError")
        ELSE IF account = None THEN Raise(acc, txn, "AccountNotFoundError")
        ELSE LET transaction ==
                     create_pending("deposit", account_no, account_no,
                                    amount, memo)
                 txn1 == TransactionRepository_create(txn, transaction)
                 txn_id == Len(txn1)
                 acc1 == update_pending(acc, account_no, amount)
             IN  Return(acc1, txn1, find_by_id(txn1, txn_id))

deposit(acc, txn, user_id, amount, memo) ==
    LET account_no == get_account_no(user_id)
        account == find_by_account_no(acc, account_no)
    IN  IF account = None THEN Raise(acc, txn, "AccountNotFoundError")
        ELSE IF WLt(amount, Zero) THEN Raise(acc, txn, "InvalidAmountError")
        ELSE IF amount = Zero THEN Raise(acc, txn, "InvalidAmountError")
        ELSE IF WGt(amount, max_amount)
        THEN Raise(acc, txn, "InvalidAmountError")
        ELSE LET transaction ==
                     create_pending("deposit", account_no, account_no,
                                    amount, memo)
                 txn1 == TransactionRepository_create(txn, transaction)
                 txn_id == Len(txn1)
                 acc1 == update_pending(acc, account_no, amount)
             IN  Return(acc1, txn1, find_by_id(txn1, txn_id))

\* defect variant: the reservation is added to Pending, not subtracted
withdraw_adds_pending(acc, txn, user_id, amount, memo) ==
    LET account_no == get_account_no(user_id)
        account == find_by_account_no(acc, account_no)
    IN  IF account = None THEN Raise(acc, txn, "AccountNotFoundError")
        ELSE IF WLt(amount, Zero) THEN Raise(acc, txn, "InvalidAmountError")
        ELSE IF amount = Zero THEN Raise(acc, txn, "InvalidAmountError")
        ELSE IF WGt(amount, max_amount)
        THEN Raise(acc, txn, "InvalidAmountError")
        ELSE LET available_balance ==
                     WSub(account[1].amount, account[1].pending)
             IN  IF WGt(amount, available_balance)
                 THEN Raise(acc, txn, "InsufficientBalanceError")
                 ELSE LET transaction ==
                              create_pending("withdraw", account_no, account_no,
                                             amount, memo)
                          txn1 == TransactionRepository_create(txn, transaction)
                          txn_id == Len(txn1)
                          acc1 == update_pending(acc, account_no, amount)
                      IN  Return(acc1, txn1, find_by_id(txn1, txn_id))

withdraw(acc, txn, user_id, amount, memo) ==
    LET account_no == get_account_no(user_id)
        account == find_by_account_no(acc, account_no)
    IN  IF account = None THEN Raise(acc, txn, "AccountNotFoundError")
        ELSE IF WLt(amount, Zero) THEN Raise(acc, txn, "InvalidAmountError")
        ELSE IF amount = Zero THEN Raise(acc, txn, "InvalidAmountError")
        ELSE IF WGt(amount, max_amount)
        THEN Raise(acc, txn, "InvalidAmountError")
        ELSE LET available_balance ==
                     WSub(account[1].amount, account[1].pending)
             IN  IF WGt(amount, available_balance)
                 THEN Raise(acc, txn, "InsufficientBalanceError")
                 ELSE LET transaction ==
                              create_pending("withdraw", account_no, account_no,
                                             amount, memo)
                          txn1 == TransactionRepository_create(txn, transaction)
                          txn_id == Len(txn1)
                          acc1 == update_pending(acc, account_no, WNeg(amount))
                      IN  Return(acc1, txn1, find_by_id(txn1, txn_id))

\* defect variant: the sufficiency check of withdraw (amount - pending)
transfer_counts_pending(acc, txn, from_user, to_user, amount, memo) ==
    LET from_account_no == get_account_no(from_user)
        to_account_no == get_account_no(to_user)
        sender == find_by_account_no(acc, from_account_no)
    IN  IF sender = None THEN Raise(acc, txn, "AccountNotFoundError")
        ELSE
        LET \* auto-create the receiver; the sender exists, so when the
            \* numbers are equal nothing is created
            acc0 == IF ~exists(acc, to_account_no)
                    THEN create_account(acc, txn, to_user, to_user).accounts
                    ELSE acc
        IN  IF from_account_no = to_account_no
            THEN Raise(acc0, txn, "InvalidTransferError")
            ELSE IF WLt(amount, Zero)
            THEN Raise(acc0, txn, "InvalidAmountError")
            ELSE IF amount = Zero THEN Raise(acc0, txn, "InvalidAmountError")
            ELSE IF WGt(amount, WSub(sender[1].amount, sender[1].pending))
            THEN Raise(acc0, txn, "InsufficientBalanceError")
            ELSE IF WLt(WSub(sender[1].amount, amount), min_balance)
            THEN Raise(acc0, txn, "InsufficientBalanceError")
            ELSE LET acc1 == update_amount(acc0, from_account_no, WNeg(amount))
                     acc2 == update_amount(acc1, to_account_no, amount)
                     transaction ==
                         [create_pending("transfer", from_account_no,
                                         to_account_no, amount, memo)
                             EXCEPT !.status = "done"]
                     txn1 == TransactionRepository_create(txn, transaction)
                     txn_id == Len(txn1)
                 IN  Return(acc2, txn1, find_by_id(txn1, txn_id))

\* defect variant: both accounts are updated before the balance checks
transfer_writes_before_checks(acc, txn, from_user, to_user, amount, memo) ==
    LET from_account_no == get_account_no(from_user)
        to_account_no == get_account_no(to_user)
        sender == find_by_account_no(acc, from_account_no)
    IN  IF sender = None THEN Raise(acc, txn, "AccountNotFoundError")
        ELSE
        LET \* auto-create the receiver; the sender exists, so when the
            \* numbers are equal nothing is created
            acc0 == IF ~exists(acc, to_account_no)
                    THEN create_account(acc, txn, to_user, to_user).accounts
                    ELSE acc
        IN  IF from_account_no = to_account_no
            THEN Raise(acc0, txn, "InvalidTransferError")
            ELSE IF WLt(amount, Zero)
            THEN Raise(acc0, txn, "InvalidAmountError")
            ELSE IF amount = Zero THEN Raise(acc0, txn, "InvalidAmountError")
            ELSE LET acc1 == update_amount(acc0, from_account_no, WNeg(amount))
                     acc2 == update_amount(acc1, to_account_no, amount)
                 IN  IF WGt(amount, sender[1].amount)
                     THEN Raise(acc2, txn, "InsufficientBalanceError")
                     ELSE IF WLt(WSub(sender[1].amount, amount), min_balance)
                     THEN Raise(acc2, txn, "InsufficientBalanceError")
                     ELSE
                     LET transaction ==
                             [create_pending("transfer", from_account_no,
                                             to_account_no, amount, memo)
                                 EXCEPT !.status = "done"]
                         txn1 == TransactionRepository_create(txn, transaction)
                         txn_id == Len(txn1)
                     IN  Return(acc2, txn1, find_by_id(txn1, txn_id))

\* defect variant: the raw user ids are compared, not the account numbers
transfer_compares_user_ids(acc, txn, from_user, to_user, amount, memo) ==
    LET from_account_no == get_account_no(from_user)
        to_account_no == get_account_no(to_user)
        sender == find_by_account_no(acc, from_account_no)
    IN  IF sender = None THEN Raise(acc, txn, "AccountNotFoundError")
        ELSE
        LET \* auto-create the receiver; the sender exists, so when the
            \* numbers are equal nothing is created
            acc0 == IF ~exists(acc, to_account_no)
                    THEN create_account(acc, txn, to_user, to_user).accounts
                    ELSE acc
        IN  IF from_user = to_user
            THEN Raise(acc0, txn, "InvalidTransferError")
            ELSE IF WLt(amount, Zero)
            THEN Raise(acc0, txn, "InvalidAmountError")
            ELSE IF amount = Zero THEN Raise(acc0, txn, "InvalidAmountError")
            ELSE IF WGt(amount, sender[1].amount)
            THEN Raise(acc0, txn, "InsufficientBalanceError")
            ELSE IF WLt(WSub(sender[1].amount, amount), min_balance)
            THEN Raise(acc0, txn, "InsufficientBalanceError")
            ELSE LET acc1 == update_amount(acc0, from_account_no, WNeg(amount))
                     acc2 == update_amount(acc1, to_account_no, amount)
                     transaction ==
                         [create_pending("transfer", from_account_no,
                                         to_account_no, amount, memo)
                             EXCEPT !.status = "done"]
                     txn1 == TransactionRepository_create(txn, transaction)
                     txn_id == Len(txn1)
                 IN  Return(acc2, txn1, find_by_id(txn1, txn_id))

\* defect variant: the new receiver is named by its account number
transfer_names_by_account_no(acc, txn, from_user, to_user, amount, memo) ==
    LET from_account_no == get_account_no(from_user)
        to_account_no == get_account_no(to_user)
        sender == find_by_account_no(acc, from_account_no)
    IN  IF sender = None THEN Raise(acc, txn, "AccountNotFoundError")
        ELSE
        LET \* auto-create the receiver; the sender exists, so when the
            \* numbers are equal nothing is created
            acc0 == IF ~exists(acc, to_account_no)
                    THEN create_account(acc, txn, to_user, to_account_no).accounts
                    ELSE acc
        IN  IF from_account_no = to_account_no
            THEN Raise(acc0, txn, "InvalidTransferError")
            ELSE IF WLt(amount, Zero)
            THEN Raise(acc0, txn, "InvalidAmountError")
            ELSE IF amount = Zero THEN Raise(acc0, txn, "InvalidAmountError")
            ELSE IF WGt(amount, sender[1].amount)
            THEN Raise(acc0, txn, "InsufficientBalanceError")
            ELSE IF WLt(WSub(sender[1].amount, amount), min_balance)
            THEN Raise(acc0, txn, "InsufficientBalanceError")
            ELSE LET acc1 == update_amount(acc0, from_account_no, WNeg(amount))
                     acc2 == update_amount(acc1, to_account_no, amount)
                     transaction ==
                         [create_pending("transfer", from_account_no,
                                         to_account_no, amount, memo)
                             EXCEPT !.status = "done"]
                     txn1 == TransactionRepository_create(txn, transaction)
                     txn_id == Len(txn1)
                 IN  Return(acc2, txn1, find_by_id(txn1, txn_id))

\* defect variant: the transaction keeps the status of create_pending
transfer_created_pending(acc, txn, from_user, to_user, amount, memo) ==
    LET from_account_no == get_account_no(from_user)
        to_account_no == get_account_no(to_user)
        sender == find_by_account_no(acc, from_account_no)
    IN  IF sender = None THEN Raise(acc, txn, "AccountNotFoundError")
        ELSE
        LET \* auto-create the receiver; the sender exists, so when the
            \* numbers are equal nothing is created
            acc0 == IF ~exists(acc, to_account_no)
                    THEN create_account(acc, txn, to_user, to_user).accounts
                    ELSE acc
        IN  IF from_account_no = to_account_no
            THEN Raise(acc0, txn, "InvalidTransferError")
            ELSE IF WLt(amount, Zero)
            THEN Raise(acc0, txn, "InvalidAmountError")
            ELSE IF amount = Zero THEN Raise(acc0, txn, "InvalidAmountError")
            ELSE IF WGt(amount, sender[1].amount)
            THEN Raise(acc0, txn, "InsufficientBalanceError")
            ELSE IF WLt(WSub(sender[1].amount, amount), min_balance)
            THEN Raise(acc0, txn, "InsufficientBalanceError")
            ELSE LET acc1 == update_amount(acc0, from_account_no, WNeg(amount))
                     acc2 == update_amount(acc1, to_account_no, amount)
                     transaction ==
                         create_pending("transfer", from_account_no,
                                        to_account_no, amount, memo)
                     txn1 == TransactionRepository_create(txn, transaction)
                     txn_id == Len(txn1)
                 IN  Return(acc2, txn1, find_by_id(txn1, txn_id))

\* defect variant: the receiver's account is created after the checks
transfer_creates_after_checks(acc, txn, from_user, to_user, amount, memo) ==
    LET from_account_no == get_account_no(from_user)
        to_account_no == get_account_no(to_user)
        sender == find_by_account_no(acc, from_account_no)
    IN  IF sender = None THEN Raise(acc, txn, "AccountNotFoundError")
        ELSE IF from_account_no = to_account_no THEN Raise(acc, txn, "InvalidTransferError")
        ELSE IF WLt(amount, Zero) THEN Raise(acc, txn, "InvalidAmountError")
        ELSE IF amount = Zero THEN Raise(acc, txn, "InvalidAmountError")
        ELSE IF WGt(amount, sender[1].amount) THEN Raise(acc, txn, "InsufficientBalanceError")
        ELSE IF WLt(WSub(sender[1].amount, amount), min_balance) THEN Raise(acc, txn, "InsufficientBalanceError")
        ELSE LET acc0 == IF ~exists(acc, to_account_no)
                         THEN create_account(acc, txn, to_user, to_user).accounts
                         ELSE acc
                 acc1 == update_amount(acc0, from_account_no, WNeg(amount))
                 acc2 == update_amount(acc1, to_account_no, amount)
                 transaction == [create_pending("transfer", from_account_no, to_account_no, amount, memo) EXCEPT !.status = "done"]
                 txn1 == TransactionRepository_create(txn, transaction)
             IN  Return(acc2, txn1, find_by_id(txn1, Len(txn1)))

\* defect variant: the check of the amount against the sender's amount is
\* left out, so that only the min_balance floor limits a transfer
transfer_floor_only(acc, txn, from_user, to_user, amount, memo) ==
    LET from_account_no == get_account_no(from_user)
        to_account_no == get_account_no(to_user)
        sender == find_by_account_no(acc, from_account_no)
    IN  IF sender = None THEN Raise(acc, txn, "AccountNotFoundError")
        ELSE
        LET acc0 == IF ~exists(acc, to_account_no)
                    THEN create_account(acc, txn, to_user, to_user).accounts
                    ELSE acc
        IN  IF from_account_no = to_account_no THEN Raise(acc0, txn, "InvalidTransferError")
            ELSE IF WLt(amount, Zero) THEN Raise(acc0, txn, "InvalidAmountError")
            ELSE IF amount = Zero THEN Raise(acc0, txn, "InvalidAmountError")
            ELSE IF WLt(WSub(sender[1].amount, amount), min_balance) THEN Raise(acc0, txn, "InsufficientBalanceError")
            ELSE LET acc1 == update_amount(acc0, from_account_no, WNeg(amount))
                     acc2 == update_amount(acc1, to_account_no, amount)
                     transaction == [create_pending("transfer", from_account_no, to_account_no, amount, memo) EXCEPT !.status = "done"]
                     txn1 == TransactionRepository_create(txn, transaction)
                 IN  Return(acc2, txn1, find_by_id(txn1, Len(txn1)))

transfer(acc, txn, from_user, to_user, amount, memo) ==
    LET from_account_no == get_account_no(from_user)
        to_account_no == get_account_no(to_user)
        sender == find_by_account_no(acc, from_account_no)
    IN  IF sender = None THEN Raise(acc, txn, "AccountNotFoundError")
        ELSE
        LET \* auto-create the receiver; the sender exists, so when the
            \* numbers are equal nothing is created
            acc0 == IF ~exists(acc, to_account_no)
                    THEN create_account(acc, txn, to_user, to_user).accounts
                    ELSE acc
        IN  IF from_account_no = to_account_no
            THEN Raise(acc0, txn, "InvalidTransferError")
            ELSE IF WLt(amount, Zero)
            THEN Raise(acc0, txn, "InvalidAmountError")
            ELSE IF amount = Zero THEN Raise(acc0, txn, "InvalidAmountError")
            ELSE IF WGt(amount, sender[1].amount)
            THEN Raise(acc0, txn, "InsufficientBalanceError")
            ELSE IF WLt(WSub(sender[1].amount, amount), min_balance)
            THEN Raise(acc0, txn, "InsufficientBalanceError")
            ELSE LET acc1 == update_amount(acc0, from_account_no, WNeg(amount))
                     acc2 == update_amount(acc1, to_account_no, amount)
                     transaction ==
                         [create_pending("transfer", from_account_no,
                                         to_account_no, amount, memo)
                             EXCEPT !.status = "done"]
                     txn1 == TransactionRepository_create(txn, transaction)
                     txn_id == Len(txn1)
                 IN  Return(acc2, txn1, find_by_id(txn1, txn_id))

\* defect variant: only a done transaction is refused, a denied one is not
approve_transaction_refuses_done_only(acc, txn, txn_id, operator) ==
    LET found == find_by_id(txn, txn_id)
    IN  IF found = None THEN Raise(acc, txn, "TransactionNotFoundError")
        ELSE
        LET transaction == found[1]
            account_no == transaction.receiver_account
            amount == transaction.amount
        IN  IF transaction.status = "done"
            THEN Raise(acc, txn, "InvalidTransactionStatusError")
            ELSE
            LET acc1 ==
                    IF transaction.type \in {"deposit", "request"}
                    THEN update_pending_and_amount(acc, account_no,
                                                   WNeg(amount), amount)
                    ELSE IF transaction.type \in {"withdraw", "donate"}
                    THEN update_pending_and_amount(acc, account_no,
                                                   amount, WNeg(amount))
                    ELSE acc
            IN  Return(acc1, update_status(txn, txn_id, "done", operator),
                       None)

\* defect variant: "donate" is missing from the reservation branch
approve_transaction_no_donate(acc, txn, txn_id, operator) ==
    LET found == find_by_id(txn, txn_id)
    IN  IF found = None THEN Raise(acc, txn, "TransactionNotFoundError")
        ELSE
        LET transaction == found[1]
            account_no == transaction.receiver_account
            amount == transaction.amount
        IN  IF transaction.status # "pending"
            THEN Raise(acc, txn, "InvalidTransactionStatusError")
            ELSE
            LET acc1 ==
                    IF transaction.type \in {"deposit", "request"}
                    THEN update_pending_and_amount(acc, account_no,
                                                   WNeg(amount), amount)
                    ELSE IF transaction.type \in {"withdraw"}
                    THEN update_pending_and_amount(acc, account_no,
                                                   amount, WNeg(amount))
                    ELSE IF transaction.sender_account
                                # transaction.receiver_account
                    THEN update_pending_and_amount(
                             update_pending_and_amount(
                                 acc, transaction.sender_account,
                                 amount, WNeg(amount)),
                             transaction.receiver_account,
                             WNeg(amount), amount)
                    ELSE acc
            IN  Return(acc1, update_status(txn, txn_id, "done", operator),
                       None)

approve_transaction(acc, txn, txn_id, operator) ==
    LET found == find_by_id(txn, txn_id)
    IN  IF found = None THEN Raise(acc, txn, "TransactionNotFoundError")
        ELSE
        LET transaction == found[1]
            account_no == transaction.receiver_account
            amount == transaction.amount
        IN  IF transaction.status # "pending"
            THEN Raise(acc, txn, "InvalidTransactionStatusError")
            ELSE
            LET acc1 ==
                    IF transaction.type \in {"deposit", "request"}
                    THEN update_pending_and_amount(acc, account_no,
                                                   WNeg(amount), amount)
                    ELSE IF transaction.type \in {"withdraw", "donate"}
                    THEN update_pending_and_amount(acc, account_no,
                                                   amount, WNeg(amount))
                    ELSE IF transaction.sender_account
                                # transaction.receiver_account
                    THEN update_pending_and_amount(
                             update_pending_and_amount(
                                 acc, transaction.sender_account,
                                 amount, WNeg(amount)),
                             transaction.receiver_account,
                             WNeg(amount), amount)
                    ELSE acc
            IN  Return(acc1, update_status(txn, txn_id, "done", operator),
                       None)

\* defect variant: the ceiling of deposit is applied to request
request_uses_max_amount(acc, txn, user_id, amount, memo) ==
    LET account_no == get_account_no(user_id)
        account == find_by_account_no(acc, account_no)
    IN  IF account = None THEN Raise(acc, txn, "AccountNotFoundError")
        ELSE IF WLt(amount, Zero) THEN Raise(acc, txn, "InvalidAmountError")
        ELSE IF amount = Zero THEN Raise(acc, txn, "InvalidAmountError")
        ELSE IF WGt(amount, max_amount)
        THEN Raise(acc, txn, "InvalidAmountError")
        ELSE LET transaction ==
                     create_pending("request", account_no, account_no,
                                    amount, memo)
                 txn1 == TransactionRepository_create(txn, transaction)
                 txn_id == Len(txn1)
                 acc1 == update_pending(acc, account_no, amount)
             IN  Return(acc1, txn1, find_by_id(txn1, txn_id))

request(acc, txn, user_id, amount, memo) ==
    LET account_no == get_account_no(user_id)
        account == find_by_account_no(acc, account_no)
    IN  IF account = None THEN Raise(acc, txn, "AccountNotFoundError")
        ELSE IF WLt(amount, Zero) THEN Raise(acc, txn, "InvalidAmountError")
        ELSE IF amount = Zero THEN Raise(acc, txn, "InvalidAmountError")
        ELSE IF WGt(amount, max_request_amount)
        THEN Raise(acc, txn, "InvalidAmountError")
        ELSE LET transaction ==
                     create_pending("request", account_no, account_no,
                                    amount, memo)
                 txn1 == TransactionRepository_create(txn, transaction)
                 txn_id == Len(txn1)
                 acc1 == update_pending(acc, account_no, amount)
             IN  Return(acc1, txn1, find_by_id(txn1, txn_id))

\* defect variant: available balance computed as amount + pending
donate_adds_pending_back(acc, txn, user_id, amount, memo) ==
    LET account_no == get_account_no(user_id)
        account == find_by_account_no(acc, account_no)
    IN  IF account = None THEN Raise(acc, txn, "AccountNotFoundError")
        ELSE IF WLt(amount, Zero) THEN Raise(acc, txn, "InvalidAmountError")
        ELSE IF amount = Zero THEN Raise(acc, txn, "InvalidAmountError")
        ELSE IF WGt(amount, max_amount)
        THEN Raise(acc, txn, "InvalidAmountError")
        ELSE LET available_balance ==
                     WAdd(account[1].amount, account[1].pending)
             IN  IF WGt(amount, available_balance)
                 THEN Raise(acc, txn, "InsufficientBalanceError")
                 ELSE LET transaction ==
                              create_pending("donate", account_no, account_no,
                                             amount, memo)
                          txn1 == TransactionRepository_create(txn, transaction)
                          txn_id == Len(txn1)
                          acc1 == update_pending(acc, account_no, WNeg(amount))
                      IN  Return(acc1, txn1, find_by_id(txn1, txn_id))

donate(acc, txn, user_id, amount, memo) ==
    LET account_no == get_account_no(user_id)
        account == find_by_account_no(acc, account_no)
    IN  IF account = None THEN Raise(acc, txn, "AccountNotFoundError")
        ELSE IF WLt(amount, Zero) THEN Raise(acc, txn, "InvalidAmountError")
        ELSE IF amount = Zero THEN Raise(acc, txn, "InvalidAmountError")
        ELSE IF WGt(amount, max_amount)
        THEN Raise(acc, txn, "InvalidAmountError")
        ELSE LET available_balance ==
                     WSub(account[1].amount, account[1].pending)
             IN  IF WGt(amount, available_balance)
                 THEN Raise(acc, txn, "InsufficientBalanceError")
                 ELSE LET transaction ==
                              create_pending("donate", account_no, account_no,
                                             amount, memo)
                          txn1 == TransactionRepository_create(txn, transaction)
                          txn_id == Len(txn1)
                          acc1 == update_pending(acc, account_no, WNeg(amount))
                      IN  Return(acc1, txn1, find_by_id(txn1, txn_id))

\* defect variant: only a denied transaction is refused, a done one is not
deny_transaction_refuses_denied_only(acc, txn, txn_id, operator) ==
    LET found == find_by_id(txn, txn_id)
    IN  IF found = None THEN Raise(acc, txn, "TransactionNotFoundError")
        ELSE
        LET transaction == found[1]
            account_no == transaction.receiver_account
            amount == transaction.amount
        IN  IF transaction.status = "denied"
            THEN Raise(acc, txn, "InvalidTransactionStatusError")
            ELSE
            LET acc1 ==
                    IF transaction.type \in {"deposit", "request"}
                    THEN update_pending(acc, account_no, WNeg(amount))
                    ELSE IF transaction.type \in {"withdraw", "donate"}
                    THEN update_pending(acc, account_no, amount)
                    ELSE acc
            IN  Return(acc1, update_status(txn, txn_id, "denied", operator),
                       None)

\* defect variant: the status is written but pending is not reverted
deny_transaction_status_only(acc, txn, txn_id, operator) ==
    LET found == find_by_id(txn, txn_id)
    IN  IF found = None THEN Raise(acc, txn, "TransactionNotFoundError")
        ELSE IF found[1].status # "pending"
        THEN Raise(acc, txn, "InvalidTransactionStatusError")
        ELSE Return(acc, update_status(txn, txn_id, "denied", operator), None)

\* defect variant: the service itself refuses an operator it does not know
deny_transaction_checks_operator(acc, txn, txn_id, operator) ==
    LET found == find_by_id(txn, txn_id)
    IN  IF found = None THEN Raise(acc, txn, "TransactionNotFoundError")
        ELSE IF operator # "admin"
        THEN Raise(acc, txn, "UnauthorizedError")
        ELSE
        LET transaction == found[1]
            account_no == transaction.receiver_account
            amount == transaction.amount
        IN  IF transaction.status # "pending"
            THEN Raise(acc, txn, "InvalidTransactionStatusError")
            ELSE
            \* a row of another type with two accounts: the code passes
            \* pending_delta= to update_pending(account_no, delta), which
            \* raises TypeError before anything is written
            IF /\ transaction.type \notin {"deposit", "request", "withdraw", "donate"}
               /\ transaction.sender_account # transaction.receiver_account
            THEN Raise(acc, txn, "TypeError")
            ELSE
            LET acc1 ==
                    IF transaction.type \in {"deposit", "request"}
                    THEN update_pending(acc, account_no, WNeg(amount))
                    ELSE IF transaction.type \in {"withdraw", "donate"}
                    THEN update_pending(acc, account_no, amount)
                    ELSE acc
            IN  Return(acc1, update_status(txn, txn_id, "denied", operator),
                       None)

deny_transaction(acc, txn, txn_id, operator) ==
    LET found == find_by_id(txn, txn_id)
    IN  IF found = None THEN Raise(acc, txn, "TransactionNotFoundError")
        ELSE
        LET transaction == found[1]
            account_no == transaction.receiver_account
            amount == transaction.amount
        IN  IF transaction.status # "pending"
            THEN Raise(acc, txn, "InvalidTransactionStatusError")
            ELSE
            \* a row of another type with two accounts: the code passes
            \* pending_delta= to update_pending(account_no, delta), which
            \* raises TypeError before anything is written
            IF /\ transaction.type \notin {"deposit", "request", "withdraw", "donate"}
               /\ transaction.sender_account # transaction.receiver_account
            THEN Raise(acc, txn, "TypeError")
            ELSE
            LET acc1 ==
                    IF transaction.type \in {"deposit", "request"}
                    THEN update_pending(acc, account_no, WNeg(amount))
                    ELSE IF transaction.type \in {"withdraw", "donate"}
                    THEN update_pending(acc, account_no, amount)
                    ELSE acc
            IN  Return(acc1, update_status(txn, txn_id, "denied", operator),
                       None)

pull_transactions(acc, txn, user_id, n) ==
    Return(acc, txn, find_by_account(txn, get_account_no(user_id), n))

get_pending_transactions(acc, txn, limit) ==
    Return(acc, txn, find_pending_transactions(txn, limit))

----------------------------------------------------------------------------
(* The callers' inputs *)

\* "1234567890" and "9234567890" share their last 9 characters; "42" is a
\* short id
UserA == <<"1", "2", "3", "4", "5", "6", "7", "8", "9", "0">>

UserA2 == <<"9", "2", "3", "4", "5", "6", "7", "8", "9", "0">>

UserB == <<"4", "2">>

\* a user id with no account in any reachable ledger
UserC == <<"7">>

AnyUser == {UserA, UserA2, UserB}

\* What the actions are called with.  These sets build the reachable tables;
\* the claims below call the methods on every reachable table with the wider
\* Any... sets.
UserIds == {UserA, UserB}

Names == {<<"A">>}

Memos == {"m"}

Operators == {"admin"}

\* an invalid amount and a valid one
Amounts == {Wide(0), Wide(1)}

TxnIds == 1..(MaxTxns + 1)

Limits == {-1, 1}

AnyName == {<<"A">>, <<"B">>}

AnyMemo == {"", "m"}

AnyOperator == {"admin", "aud"}

AnyAmount == {Wide(-1), Wide(0), Wide(1), Wide(2), Wide(3)}

\* amounts that a deposit accepts: small ones and the two ceilings
ValidAmounts ==
    {Wide(1), Wide(2), Wide(3), max_request_amount, max_amount}

\* the two ceilings and their successors
BoundaryAmounts ==
    {max_request_amount, WAdd(max_request_amount, Wide(1)),
     max_amount, WAdd(max_amount, Wide(1))}

----------------------------------------------------------------------------
(* The state machine: one action per service method *)

\* the sessions of the bot: two conversations, each with its operator name
SessionIds == {1, 2}

SessionOperator(s) == IF s = 1 THEN "admin" ELSE "aud"

Idle == [kind |-> "idle", ids |-> <<>>]

Init ==
    /\ accounts = <<>>
    /\ txns = <<>>
    /\ inflight = <<>>
    /\ sessions = [s \in SessionIds |-> Idle]
    /\ interrupts = 0

\* the tables after a call that ran to completion; the log is capped at
\* MaxTxns rows, and a call is accepted only when none is in progress
Apply(r) ==
    /\ inflight = <<>>
    /\ Len(r.txns) <= MaxTxns
    /\ accounts' = r.accounts
    /\ txns' = r.txns
    /\ UNCHANGED <<inflight, sessions, interrupts>>

CreateAccount ==
    \E u \in UserIds, name \in Names :
        Apply(create_account(accounts, txns, u, name))

GetBalance ==
    \E u \in UserIds : Apply(get_balance(accounts, txns, u))

Deposit ==
    \E u \in UserIds, n \in Amounts, m \in Memos :
        Apply(deposit(accounts, txns, u, n, m))

Withdraw ==
    \E u \in UserIds, n \in Amounts, m \in Memos :
        Apply(withdraw(accounts, txns, u, n, m))

Transfer ==
    \E u \in UserIds, v \in UserIds, n \in Amounts, m \in Memos :
        Apply(transfer(accounts, txns, u, v, n, m))

ApproveTransaction ==
    \E id \in TxnIds, op \in Operators :
        Apply(approve_transaction(accounts, txns, id, op))

Request ==
    \E u \in UserIds, n \in Amounts, m \in Memos :
        Apply(request(accounts, txns, u, n, m))

Donate ==
    \E u \in UserIds, n \in Amounts, m \in Memos :
        Apply(donate(accounts, txns, u, n, m))

DenyTransaction ==
    \E id \in TxnIds, op \in Operators :
        Apply(deny_transaction(accounts, txns, id, op))

PullTransactions ==
    \E u \in UserIds, n \in Limits :
        Apply(pull_transactions(accounts, txns, u, n))

GetPendingTransactions ==
    \E n \in Limits : Apply(get_pending_transactions(accounts, txns, n))

Next ==
    \/ CreateAccount
    \/ GetBalance
    \/ Deposit
    \/ Withdraw
    \/ Transfer
    \/ ApproveTransaction
    \/ Request
    \/ Donate
    \/ DenyTransaction
    \/ PullTransactions
    \/ GetPendingTransactions

Spec == Init /\ [][Next]_vars

\* The same ledger with deposits of exactly the ceiling as well, so that
\* settled amounts above max_amount are reached.
DepositCeiling ==
    \E u \in UserIds : Apply(deposit(accounts, txns, u, max_amount, "m"))

NextCeiling ==
    \/ Next
    \/ DepositCeiling

SpecCeiling == Init /\ [][NextCeiling]_vars

----------------------------------------------------------------------------
(* The store calls of a service call.  Every write method of the two       *)
(* repositories ends with a commit of its own, so the tables after each    *)
(* store call are a committed state; a call that is interrupted (the       *)
(* process stops, a later statement raises) leaves the tables as its last   *)
(* completed store call made them.                                         *)

\* one store call applied to the tables
StoreCall(c, acc, txn) ==
    CASE c.call = "AccountRepository.create" ->
             [accounts |-> AccountRepository_create(acc, c.account).rows,
              txns |-> txn]
      [] c.call = "update_pending" ->
             [accounts |-> update_pending(acc, c.account_no, c.pending_delta),
              txns |-> txn]
      [] c.call = "update_amount" ->
             [accounts |-> update_amount(acc, c.account_no, c.amount_delta),
              txns |-> txn]
      [] c.call = "update_pending_and_amount" ->
             [accounts |-> update_pending_and_amount(acc, c.account_no, c.pending_delta, c.amount_delta),
              txns |-> txn]
      [] c.call = "TransactionRepository.create" ->
             [accounts |-> acc,
              txns |-> TransactionRepository_create(txn, c.transaction)]
      [] c.call = "update_status" ->
             [accounts |-> acc,
              txns |-> update_status(txn, c.txn_id, c.status, c.operator)]

CallCreateAccount(account) ==
    [call |-> "AccountRepository.create", account |-> account]

CallUpdatePending(account_no, pending_delta) ==
    [call |-> "update_pending", account_no |-> account_no, pending_delta |-> pending_delta]

CallUpdateAmount(account_no, amount_delta) ==
    [call |-> "update_amount", account_no |-> account_no, amount_delta |-> amount_delta]

CallUpdatePendingAndAmount(account_no, pending_delta, amount_delta) ==
    [call |-> "update_pending_and_amount", account_no |-> account_no, pending_delta |-> pending_delta, amount_delta |-> amount_delta]

CallCreateTransaction(transaction) ==
    [call |-> "TransactionRepository.create", transaction |-> transaction]

CallUpdateStatus(txn_id, status, operator) ==
    [call |-> "update_status", txn_id |-> txn_id, status |-> status, operator |-> operator]

\* create_account: one insert
create_account_calls(acc, txn, user_id, name) ==
    IF create_account(acc, txn, user_id, name).err # "none" THEN <<>>
    ELSE <<CallCreateAccount(Account(0, get_account_no(user_id), name, Zero, Zero, 0))>>

\* deposit and request: the transaction row, then the pending increase
deposit_calls(acc, txn, user_id, amount, memo) ==
    LET account_no == get_account_no(user_id)
    IN  IF deposit(acc, txn, user_id, amount, memo).err # "none" THEN <<>>
        ELSE <<CallCreateTransaction(create_pending("deposit", account_no, account_no, amount, memo)),
               CallUpdatePending(account_no, amount)>>

request_calls(acc, txn, user_id, amount, memo) ==
    LET account_no == get_account_no(user_id)
    IN  IF request(acc, txn, user_id, amount, memo).err # "none" THEN <<>>
        ELSE <<CallCreateTransaction(create_pending("request", account_no, account_no, amount, memo)),
               CallUpdatePending(account_no, amount)>>

\* withdraw and donate: the transaction row, then the pending decrease
withdraw_calls(acc, txn, user_id, amount, memo) ==
    LET account_no == get_account_no(user_id)
    IN  IF withdraw(acc, txn, user_id, amount, memo).err # "none" THEN <<>>
        ELSE <<CallCreateTransaction(create_pending("withdraw", account_no, account_no, amount, memo)),
               CallUpdatePending(account_no, WNeg(amount))>>

donate_calls(acc, txn, user_id, amount, memo) ==
    LET account_no == get_account_no(user_id)
    IN  IF donate(acc, txn, user_id, amount, memo).err # "none" THEN <<>>
        ELSE <<CallCreateTransaction(create_pending("donate", account_no, account_no, amount, memo)),
               CallUpdatePending(account_no, WNeg(amount))>>

\* transfer: the receiver's row when it is missing, then (when every check
\* passes) the debit, the credit and the transaction row
transfer_calls(acc, txn, from_user, to_user, amount, memo) ==
    LET from_account_no == get_account_no(from_user)
        to_account_no == get_account_no(to_user)
        created ==
            IF find_by_account_no(acc, from_account_no) = None \/ exists(acc, to_account_no)
            THEN <<>>
            ELSE <<CallCreateAccount(Account(0, to_account_no, to_user, Zero, Zero, 0))>>
    IN  IF transfer(acc, txn, from_user, to_user, amount, memo).err # "none" THEN created
        ELSE created \o
             <<CallUpdateAmount(from_account_no, WNeg(amount)),
               CallUpdateAmount(to_account_no, amount),
               CallCreateTransaction([create_pending("transfer", from_account_no, to_account_no, amount, memo) EXCEPT !.status = "done"])>>

\* defect variant: the status is written before the account adjustment
approve_transaction_calls_status_first(acc, txn, txn_id, operator) ==
    IF approve_transaction(acc, txn, txn_id, operator).err # "none" THEN <<>>
    ELSE
    LET transaction == find_by_id(txn, txn_id)[1]
        account_no == transaction.receiver_account
        amount == transaction.amount
    IN  <<CallUpdateStatus(txn_id, "done", operator),
          IF transaction.type \in {"deposit", "request"}
          THEN CallUpdatePendingAndAmount(account_no, WNeg(amount), amount)
          ELSE CallUpdatePendingAndAmount(account_no, amount, WNeg(amount))>>

\* approve_transaction: the account adjustment, then the status
approve_transaction_calls(acc, txn, txn_id, operator) ==
    IF approve_transaction(acc, txn, txn_id, operator).err # "none" THEN <<>>
    ELSE
    LET transaction == find_by_id(txn, txn_id)[1]
        account_no == transaction.receiver_account
        amount == transaction.amount
        adjust ==
            IF transaction.type \in {"deposit", "request"}
            THEN <<CallUpdatePendingAndAmount(account_no, WNeg(amount), amount)>>
            ELSE IF transaction.type \in {"withdraw", "donate"}
            THEN <<CallUpdatePendingAndAmount(account_no, amount, WNeg(amount))>>
            ELSE IF transaction.sender_account # transaction.receiver_account
            THEN <<CallUpdatePendingAndAmount(transaction.sender_account, amount, WNeg(amount)),
                   CallUpdatePendingAndAmount(transaction.receiver_account, WNeg(amount), amount)>>
            ELSE <<>>
    IN  adjust \o <<CallUpdateStatus(txn_id, "done", operator)>>

\* deny_transaction: the pending reversal, then the status; a denial that
\* raises (TypeError included) has completed no store call
deny_transaction_calls(acc, txn, txn_id, operator) ==
    IF deny_transaction(acc, txn, txn_id, operator).err # "none" THEN <<>>
    ELSE
    LET transaction == find_by_id(txn, txn_id)[1]
        account_no == transaction.receiver_account
        amount == transaction.amount
        revert ==
            IF transaction.type \in {"deposit", "request"}
            THEN <<CallUpdatePending(account_no, WNeg(amount))>>
            ELSE IF transaction.type \in {"withdraw", "donate"}
            THEN <<CallUpdatePending(account_no, amount)>>
            ELSE <<>>
    IN  revert \o <<CallUpdateStatus(txn_id, "denied", operator)>>

RECURSIVE RunCalls(_, _, _)
\* the tables after a sequence of store calls
RunCalls(calls, acc, txn) ==
    IF calls = <<>> THEN [accounts |-> acc, txns |-> txn]
    ELSE LET s == StoreCall(Head(calls), acc, txn)
         IN  RunCalls(Tail(calls), s.accounts, s.txns)

\* the store calls of every call that can be made on the current tables
CallsInProgress ==
    {create_account_calls(accounts, txns, u, name) : u \in UserIds, name \in Names}
    \cup {deposit_calls(accounts, txns, u, n, m) : u \in UserIds, n \in Amounts, m \in Memos}
    \cup {request_calls(accounts, txns, u, n, m) : u \in UserIds, n \in Amounts, m \in Memos}
    \cup {withdraw_calls(accounts, txns, u, n, m) : u \in UserIds, n \in Amounts, m \in Memos}
    \cup {donate_calls(accounts, txns, u, n, m) : u \in UserIds, n \in Amounts, m \in Memos}
    \cup {transfer_calls(accounts, txns, u, v, n, m) : u \in UserIds, v \in UserIds, n \in Amounts, m \in Memos}
    \cup {approve_transaction_calls(accounts, txns, id, op) : id \in TxnIds, op \in Operators}
    \cup {deny_transaction_calls(accounts, txns, id, op) : id \in TxnIds, op \in Operators}

\* a call is accepted, passes its checks and makes its first store call,
\* which commits
BeginCall ==
    /\ inflight = <<>>
    /\ \E calls \in CallsInProgress :
           /\ calls # <<>>
           /\ Len(RunCalls(calls, accounts, txns).txns) <= MaxTxns
           /\ LET s == StoreCall(Head(calls), accounts, txns)
              IN  accounts' = s.accounts /\ txns' = s.txns
           /\ inflight' = Tail(calls)
    /\ UNCHANGED <<sessions, interrupts>>

\* the call in progress makes its next store call, which commits too
Commit ==
    /\ inflight # <<>>
    /\ LET s == StoreCall(Head(inflight), accounts, txns)
       IN  accounts' = s.accounts /\ txns' = s.txns
    /\ inflight' = Tail(inflight)
    /\ UNCHANGED <<sessions, interrupts>>

\* the call in progress stops before its next store call
Interrupt ==
    /\ inflight # <<>>
    /\ interrupts < MaxInterrupts
    /\ inflight' = <<>>
    /\ interrupts' = interrupts + 1
    /\ UNCHANGED <<accounts, txns, sessions>>

NextSteps ==
    \/ Next
    \/ BeginCall
    \/ Commit
    \/ Interrupt

SpecSteps == Init /\ [][NextSteps]_vars

----------------------------------------------------------------------------
(* The bot's audit and recall conversations.  Each takes a snapshot when   *)
(* it starts and waits for reactions between its service calls, so whole    *)
(* service calls of other conversations and users interleave with it.      *)

\* Settings.audit_max_output
audit_max_output == 20

\* the tables after a service call made by a conversation
ApplyCall(r) ==
    /\ inflight = <<>>
    /\ accounts' = r.accounts
    /\ txns' = r.txns
    /\ UNCHANGED <<inflight, interrupts>>

\* what is left of a snapshot after its first id was handled
Rest(session) ==
    IF Len(session.ids) > 1 THEN [session EXCEPT !.ids = Tail(@)] ELSE Idle

\* $audit: pendings = get_pending_transactions(max_output), not empty
AuditStart(s) ==
    /\ sessions[s].kind = "idle"
    /\ LET r == get_pending_transactions(accounts, txns, audit_max_output)
       IN  /\ r.ret # <<>>
           /\ sessions' = [sessions EXCEPT ![s] = [kind |-> "audit", ids |-> [i \in DOMAIN r.ret |-> r.ret[i].id]]]
           /\ ApplyCall(r)

\* a check mark (or one round of thumbs-up): approve pendings[i]; an error
\* of the service is not caught and ends the command
AuditApprove(s) ==
    /\ sessions[s].kind = "audit"
    /\ LET r == approve_transaction(accounts, txns, Head(sessions[s].ids), SessionOperator(s))
       IN  /\ ApplyCall(r)
           /\ sessions' = [sessions EXCEPT ![s] = IF r.err = "none" THEN Rest(@) ELSE Idle]

\* a cross: deny pendings[i]
AuditDeny(s) ==
    /\ sessions[s].kind = "audit"
    /\ LET r == deny_transaction(accounts, txns, Head(sessions[s].ids), SessionOperator(s))
       IN  /\ ApplyCall(r)
           /\ sessions' = [sessions EXCEPT ![s] = IF r.err = "none" THEN Rest(@) ELSE Idle]

\* a pause sign: skip pendings[i]
AuditSkip(s) ==
    /\ sessions[s].kind = "audit"
    /\ sessions' = [sessions EXCEPT ![s] = Rest(@)]
    /\ UNCHANGED <<accounts, txns, inflight, interrupts>>

\* $recall: the user's last transaction, when it can be retracted and is
\* pending, waits for the confirmation
RecallStart(s) ==
    /\ sessions[s].kind = "idle"
    /\ \E u \in UserIds :
        LET r == pull_transactions(accounts, txns, u, 1)
        IN  /\ r.ret # <<>>
            /\ r.ret[1].type \in {"deposit", "withdraw", "donate", "request"}
            /\ r.ret[1].status = "pending"
            /\ sessions' = [sessions EXCEPT ![s] = [kind |-> "recall", ids |-> <<r.ret[1].id>>]]
            /\ ApplyCall(r)

\* the check mark of a recall: deny_transaction(data.id, display_name); a
\* BankError is caught and reported
RecallConfirm(s) ==
    /\ sessions[s].kind = "recall"
    /\ ApplyCall(deny_transaction(accounts, txns, Head(sessions[s].ids), SessionOperator(s)))
    /\ sessions' = [sessions EXCEPT ![s] = Idle]

\* the cross of a recall, or the timeout of either conversation
SessionEnd(s) ==
    /\ sessions[s].kind # "idle"
    /\ sessions' = [sessions EXCEPT ![s] = Idle]
    /\ UNCHANGED <<accounts, txns, inflight, interrupts>>

NextAudit ==
    \/ Next
    \/ \E s \in SessionIds : AuditStart(s)
    \/ \E s \in SessionIds : AuditApprove(s)
    \/ \E s \in SessionIds : AuditDeny(s)
    \/ \E s \in SessionIds : AuditSkip(s)
    \/ \E s \in SessionIds : RecallStart(s)
    \/ \E s \in SessionIds : RecallConfirm(s)
    \/ \E s \in SessionIds : SessionEnd(s)

SpecAudit == Init /\ [][NextAudit]_vars

----------------------------------------------------------------------------
(* Vocabulary of the claims *)

\* the row of an existing account
AccountOf(rows, account_no) == find_by_account_no(rows, account_no)[1]

Created(type, acc, txn, user_id, amount, memo) ==
    CASE type = "deposit" -> deposit(acc, txn, user_id, amount, memo)
      [] type = "request" -> request(acc, txn, user_id, amount, memo)
      [] type = "withdraw" -> withdraw(acc, txn, user_id, amount, memo)
      [] type = "donate" -> donate(acc, txn, user_id, amount, memo)

\* every call a step of Spec can make on the current tables, and approve and
\* deny with every operator, each with the method's name and its outcome
Calls ==
    {[op |-> "create_account", id |-> 0,
      out |-> create_account(accounts, txns, u, name)] :
        u \in UserIds, name \in Names}
    \cup {[op |-> "get_balance", id |-> 0,
           out |-> get_balance(accounts, txns, u)] : u \in UserIds}
    \cup {[op |-> type, id |-> 0,
           out |-> Created(type, accounts, txns, u, n, m)] :
        type \in {"deposit", "request", "withdraw", "donate"},
        u \in UserIds, n \in Amounts, m \in Memos}
    \cup {[op |-> "transfer", id |-> 0,
           out |-> transfer(accounts, txns, u, v, n, m)] :
        u \in UserIds, v \in UserIds, n \in Amounts, m \in Memos}
    \cup {[op |-> "approve_transaction", id |-> id,
           out |-> approve_transaction(accounts, txns, id, op)] :
        id \in TxnIds, op \in AnyOperator}
    \cup {[op |-> "deny_transaction", id |-> id,
           out |-> deny_transaction(accounts, txns, id, op)] :
        id \in TxnIds, op \in AnyOperator}
    \cup {[op |-> "pull_transactions", id |-> 0,
           out |-> pull_transactions(accounts, txns, u, n)] :
        u \in UserIds, n \in Limits}
    \cup {[op |-> "get_pending_transactions", id |-> 0,
           out |-> get_pending_transactions(accounts, txns, n)] :
        n \in Limits}

----------------------------------------------------------------------------
(* C1 *)

\* C1: whatever method is called on a reachable ledger, a stored
\* transaction's status changes only from pending to done, and then the call
\* is approve_transaction, or from pending to denied, and then the call is
\* deny_transaction; a transaction that is done or denied keeps its status
\* and its operator.
C1_StatusTransitions ==
    \A c \in Calls : \A i \in DOMAIN txns :
        /\ i \in DOMAIN c.out.txns
        /\ LET old == txns[i]
               new == c.out.txns[i]
           IN  /\ new.status # old.status =>
                     /\ old.status = "pending"
                     /\ \/ new.status = "done" /\ c.op = "approve_transaction"
                        \/ new.status = "denied" /\ c.op = "deny_transaction"
               /\ old.status # "pending" =>
                     new.status = old.status /\ new.operator = old.operator

\* an approved and a denied transaction are stored, each with its operator
C1_Witness ==
    \E i \in DOMAIN txns, j \in DOMAIN txns :
        /\ txns[i].status = "done" /\ txns[i].operator = Some("admin")
        /\ txns[j].status = "denied" /\ txns[j].operator = Some("admin")

----------------------------------------------------------------------------
(* C2, C3, C4: round trips *)

\* the account has no pending transaction in the log
NothingUnsettled(txn, account_no) ==
    \A i \in DOMAIN txn :
        txn[i].status = "pending" =>
            /\ txn[i].sender_account # account_no
            /\ txn[i].receiver_account # account_no

\* C2: on every reachable ledger, a deposit or request that succeeds,
\* followed by approve_transaction of the returned id, succeeds and leaves
\* the account's pending at its value before the deposit (0 when the account
\* had nothing unsettled), its amount exactly n higher, and the transaction
\* done.
C2_DepositApproveRoundTrip ==
    \A type \in {"deposit", "request"}, u \in AnyUser,
       n \in ValidAmounts, m \in Memos :
        LET d == Created(type, accounts, txns, u, n, m)
            no == get_account_no(u)
        IN  d.err = "none" => \A op \in AnyOperator :
            LET id == d.ret[1].id
                a == approve_transaction(d.accounts, d.txns, id, op)
                before == AccountOf(accounts, no)
                after == AccountOf(a.accounts, no)
            IN  /\ a.err = "none"
                /\ after.pending = before.pending
                /\ NothingUnsettled(txns, no) => after.pending = Zero
                /\ after.amount = WAdd(before.amount, n)
                /\ a.txns[id].status = "done"

\* a deposit has been approved for an account that has another transaction
\* still pending
C2_Witness ==
    \E i \in DOMAIN txns, j \in DOMAIN txns :
        /\ txns[i].type = "deposit" /\ txns[i].status = "done"
        /\ txns[j].status = "pending"
        /\ txns[j].receiver_account = txns[i].receiver_account
        /\ AccountOf(accounts, txns[i].receiver_account).pending # Zero
        /\ AccountOf(accounts, txns[i].receiver_account).amount
               = txns[i].amount

\* C3: on every reachable ledger, a withdraw or donate that succeeds,
\* followed by approve_transaction of the returned id, succeeds and leaves
\* the account's pending at its value before the withdraw (0 when the
\* account had nothing unsettled) and its amount exactly n lower.
C3_WithdrawApproveRoundTrip ==
    \A type \in {"withdraw", "donate"}, u \in AnyUser,
       n \in ValidAmounts, m \in Memos :
        LET w == Created(type, accounts, txns, u, n, m)
            no == get_account_no(u)
        IN  w.err = "none" => \A op \in AnyOperator :
            LET id == w.ret[1].id
                a == approve_transaction(w.accounts, w.txns, id, op)
                before == AccountOf(accounts, no)
                after == AccountOf(a.accounts, no)
            IN  /\ a.err = "none"
                /\ after.pending = before.pending
                /\ NothingUnsettled(txns, no) => after.pending = Zero
                /\ after.amount = WSub(before.amount, n)
                /\ a.txns[id].status = "done"

\* a withdraw or a donate has been approved
C3_Witness ==
    \E i \in DOMAIN txns :
        /\ txns[i].type \in {"withdraw", "donate"}
        /\ txns[i].status = "done"

\* C4: on every reachable ledger, a deposit, request, withdraw or donate that
\* succeeds, followed by deny_transaction of the returned id, succeeds and
\* leaves the account's pending at its value before the creation, its amount
\* unchanged, and the transaction denied.
C4_CreateDenyRoundTrip ==
    \A type \in {"deposit", "request", "withdraw", "donate"}, u \in AnyUser,
       n \in ValidAmounts, m \in Memos :
        LET c == Created(type, accounts, txns, u, n, m)
            no == get_account_no(u)
        IN  c.err = "none" => \A op \in AnyOperator :
            LET id == c.ret[1].id
                d == deny_transaction(c.accounts, c.txns, id, op)
                before == AccountOf(accounts, no)
                after == AccountOf(d.accounts, no)
            IN  /\ d.err = "none"
                /\ after.pending = before.pending
                /\ after.amount = before.amount
                /\ d.txns[id].status = "denied"

\* a withdraw or donate has been denied and the account, which has nothing
\* else unsettled, is back at pending 0 with its amount untouched
C4_Witness ==
    \E i \in DOMAIN txns :
        /\ txns[i].type \in {"withdraw", "donate"}
        /\ txns[i].status = "denied"
        /\ AccountOf(accounts, txns[i].receiver_account).pending = Zero
        /\ WGt(AccountOf(accounts, txns[i].receiver_account).amount, Zero)

----------------------------------------------------------------------------
(* C5, C6: a settled transaction is final *)

\* C5: whenever a stored transaction is denied, deny_transaction and
\* approve_transaction of its id, by any operator, fail with
\* InvalidTransactionStatus and leave the accounts (pending and amount) as
\* they are.
C5_DeniedIsFinal ==
    \A i \in DOMAIN txns : txns[i].status = "denied" =>
        \A op \in AnyOperator :
            LET d == deny_transaction(accounts, txns, txns[i].id, op)
                a == approve_transaction(accounts, txns, txns[i].id, op)
            IN  /\ d.err = "InvalidTransactionStatusError"
                /\ d.accounts = accounts
                /\ a.err = "InvalidTransactionStatusError"
                /\ a.accounts = accounts

\* a deposit or request has been denied while its account has something
\* else unsettled
C5_Witness ==
    \E i \in DOMAIN txns :
        /\ txns[i].type \in {"deposit", "request"}
        /\ txns[i].status = "denied"
        /\ AccountOf(accounts, txns[i].receiver_account).pending # Zero

\* C6: whenever a stored transaction is done (approved, or a transfer),
\* approve_transaction and deny_transaction of its id, by any operator, fail
\* with InvalidTransactionStatus and leave both tables as they are.
C6_DoneIsFinal ==
    \A i \in DOMAIN txns : txns[i].status = "done" =>
        \A op \in AnyOperator :
            LET a == approve_transaction(accounts, txns, txns[i].id, op)
                d == deny_transaction(accounts, txns, txns[i].id, op)
            IN  /\ a.err = "InvalidTransactionStatusError"
                /\ a.accounts = accounts /\ a.txns = txns
                /\ d.err = "InvalidTransactionStatusError"
                /\ d.accounts = accounts /\ d.txns = txns

\* an approved deposit and a transfer are both stored
C6_Witness ==
    \E i \in DOMAIN txns, j \in DOMAIN txns :
        /\ txns[i].type = "deposit" /\ txns[i].status = "done"
        /\ txns[i].operator # None
        /\ txns[j].type = "transfer" /\ txns[j].status = "done"
        /\ txns[j].operator = None

----------------------------------------------------------------------------
(* C7: who writes amount and pending *)

\* C7: whatever method is called on a reachable ledger, an existing
\* account's amount differs afterwards only when the call succeeded and was
\* transfer or approve_transaction, and its pending differs only when the
\* call succeeded and was deposit, withdraw, request or donate, or approve or
\* deny of a transaction of one of those types; so create_account,
\* get_balance, pull_transactions, get_pending_transactions and every failed
\* call leave both fields of every existing account as they were.
C7_BalanceWriters ==
    \A c \in Calls : \A i \in DOMAIN accounts :
        /\ i \in DOMAIN c.out.accounts
        /\ LET old == accounts[i]
               new == c.out.accounts[i]
           IN  /\ new.account_no = old.account_no
               /\ new.amount # old.amount =>
                     /\ c.out.err = "none"
                     /\ c.op \in {"transfer", "approve_transaction"}
               /\ new.pending # old.pending =>
                     /\ c.out.err = "none"
                     /\ \/ c.op \in {"deposit", "withdraw", "request", "donate"}
                        \/ /\ c.op \in {"approve_transaction",
                                         "deny_transaction"}
                           /\ txns[c.id].type \in
                                 {"deposit", "withdraw", "request", "donate"}

\* two accounts exist, one holds a received transfer and the other has a
\* pending transaction, so calls of every kind, failing and succeeding, are
\* made against non-zero balances
C7_Witness ==
    /\ Len(accounts) = 2
    /\ \E i \in DOMAIN txns : txns[i].type = "transfer"
    /\ \E i \in DOMAIN accounts : accounts[i].amount # Zero
    /\ \E c \in Calls : c.out.err = "InsufficientBalanceError"
    /\ \E c \in Calls : c.out.err = "InvalidTransactionStatusError"

----------------------------------------------------------------------------
(* C8, C9, C10: creating a pending transaction *)

\* C8: on every reachable ledger, a deposit or request of n that succeeds
\* appends exactly one transaction, with that type, status pending, sender
\* and receiver the account number, amount n, the given memo and no
\* operator, and the account's pending is n higher and its amount unchanged.
C8_DepositEffect ==
    \A type \in {"deposit", "request"}, u \in AnyUser,
       n \in ValidAmounts, m \in AnyMemo :
        LET r == Created(type, accounts, txns, u, n, m)
            no == get_account_no(u)
        IN  r.err = "none" =>
              /\ r.txns = Append(txns,
                      Transaction(Len(txns) + 1, type, no, no, "pending", n,
                                  None, m))
              /\ r.ret = Some(r.txns[Len(r.txns)])
              /\ AccountOf(r.accounts, no).pending
                     = WAdd(AccountOf(accounts, no).pending, n)
              /\ AccountOf(r.accounts, no).amount
                     = AccountOf(accounts, no).amount

\* a deposit and a request of the same account are pending together
C8_Witness ==
    \E i \in DOMAIN txns, j \in DOMAIN txns :
        /\ txns[i].type = "deposit" /\ txns[i].status = "pending"
        /\ txns[j].type = "request" /\ txns[j].status = "pending"
        /\ txns[j].receiver_account = txns[i].receiver_account
        /\ AccountOf(accounts, txns[i].receiver_account).pending
               = WAdd(txns[i].amount, txns[j].amount)

\* C9: on every reachable ledger, a withdraw or donate of n that succeeds
\* appends exactly one transaction, with that type, status pending, sender
\* and receiver the account number and amount n, and the account's pending
\* is n lower (possibly negative) and its amount unchanged.
C9_WithdrawEffect ==
    \A type \in {"withdraw", "donate"}, u \in AnyUser,
       n \in ValidAmounts, m \in Memos :
        LET r == Created(type, accounts, txns, u, n, m)
            no == get_account_no(u)
        IN  r.err = "none" =>
              /\ Len(r.txns) = Len(txns) + 1
              /\ SubSeq(r.txns, 1, Len(txns)) = txns
              /\ LET t == r.txns[Len(r.txns)]
                 IN  /\ t.type = type /\ t.status = "pending"
                     /\ t.sender_account = no /\ t.receiver_account = no
                     /\ t.amount = n
              /\ AccountOf(r.accounts, no).pending
                     = WSub(AccountOf(accounts, no).pending, n)
              /\ AccountOf(r.accounts, no).amount
                     = AccountOf(accounts, no).amount

\* a withdraw or donate is pending and its account's pending is negative
C9_Witness ==
    \E i \in DOMAIN txns :
        /\ txns[i].type \in {"withdraw", "donate"}
        /\ txns[i].status = "pending"
        /\ WLt(AccountOf(accounts, txns[i].receiver_account).pending, Zero)

\* C10: on every reachable ledger, for an existing account and an amount
\* within 1..max_amount, withdraw and donate fail with InsufficientBalance
\* exactly when the amount exceeds (amount - pending) of the account, and
\* succeed otherwise; a failing call leaves both tables as they were.
C10_InsufficientBalance ==
    \A type \in {"withdraw", "donate"}, u \in AnyUser,
       n \in ValidAmounts, m \in Memos :
        LET no == get_account_no(u)
            r == Created(type, accounts, txns, u, n, m)
        IN  (/\ exists(accounts, no)
             /\ WGt(n, Zero) /\ ~WGt(n, max_amount)) =>
              LET a == AccountOf(accounts, no)
                  available == WSub(a.amount, a.pending)
              IN  /\ r.err = IF WGt(n, available)
                             THEN "InsufficientBalanceError" ELSE "none"
                  /\ r.err # "none" =>
                        r.accounts = accounts /\ r.txns = txns

\* an account whose available value (amount - pending) is exactly 2, so
\* that a withdraw of 2 succeeds and a withdraw of 3 fails
C10_Witness ==
    \E u \in AnyUser :
        /\ exists(accounts, get_account_no(u))
        /\ LET a == AccountOf(accounts, get_account_no(u))
           IN  /\ WSub(a.amount, a.pending) = Wide(2)
               /\ a.pending # Zero
        /\ withdraw(accounts, txns, u, Wide(2), "m").err = "none"
        /\ withdraw(accounts, txns, u, Wide(3), "m").err
               = "InsufficientBalanceError"

----------------------------------------------------------------------------
(* C11: reserving by withdraw and donate *)

\* C11: on every reachable ledger, for an account with amount a >= 0 and
\* pending 0, after one or two successive successful withdraw or donate calls
\* the total reserved (-pending) does not exceed a, and approving them all
\* leaves the amount at 0 or above.
C11_NoDoubleReserve ==
    \A u \in AnyUser, t1 \in {"withdraw", "donate"},
       t2 \in {"withdraw", "donate"}, n1 \in ValidAmounts,
       n2 \in ValidAmounts :
        LET no == get_account_no(u)
        IN  (/\ exists(accounts, no)
             /\ ~WLt(AccountOf(accounts, no).amount, Zero)
             /\ AccountOf(accounts, no).pending = Zero) =>
            LET a == AccountOf(accounts, no).amount
                r1 == Created(t1, accounts, txns, u, n1, "m")
            IN  r1.err = "none" =>
                /\ ~WGt(WNeg(AccountOf(r1.accounts, no).pending), a)
                /\ LET r2 == Created(t2, r1.accounts, r1.txns, u, n2, "m")
                   IN  r2.err = "none" =>
                       /\ ~WGt(WNeg(AccountOf(r2.accounts, no).pending), a)
                       /\ LET a1 == approve_transaction(r2.accounts, r2.txns,
                                        r1.ret[1].id, "admin")
                              a2 == approve_transaction(a1.accounts, a1.txns,
                                        r2.ret[1].id, "admin")
                          IN  ~WLt(AccountOf(a2.accounts, no).amount, Zero)

----------------------------------------------------------------------------
(* C12 .. C17: transfer *)

RECURSIVE SumAmount(_)
\* the sum of the Amount column
SumAmount(rows) ==
    IF rows = <<>> THEN Zero
    ELSE WAdd(rows[1].amount, SumAmount(Tail(rows)))

\* C12: on every reachable ledger, a transfer of n from S to R that succeeds
\* lowers S's amount by n, raises R's amount by n (from 0 when R is created
\* by the call), leaves the pending of S, of R and of every other account and
\* the amount of every other account as they were, keeps the sum of all
\* amounts, and appends exactly one transaction: type transfer, status done,
\* sender S, receiver R, amount n, no operator.
C12_TransferEffect ==
    \A u \in AnyUser, v \in AnyUser \cup {UserC}, n \in ValidAmounts,
       m \in AnyMemo :
        LET r == transfer(accounts, txns, u, v, n, m)
            S == get_account_no(u)
            R == get_account_no(v)
            oldR == IF exists(accounts, R) THEN AccountOf(accounts, R)
                    ELSE Account(0, R, v, Zero, Zero, 0)
        IN  r.err = "none" =>
            /\ S # R
            /\ AccountOf(r.accounts, S).amount
                   = WSub(AccountOf(accounts, S).amount, n)
            /\ AccountOf(r.accounts, S).pending
                   = AccountOf(accounts, S).pending
            /\ AccountOf(r.accounts, R).amount = WAdd(oldR.amount, n)
            /\ AccountOf(r.accounts, R).pending = oldR.pending
            /\ \A i \in DOMAIN accounts :
                   accounts[i].account_no \notin {S, R} =>
                       r.accounts[i] = accounts[i]
            /\ SumAmount(r.accounts) = SumAmount(accounts)
            /\ r.txns = Append(txns,
                   Transaction(Len(txns) + 1, "transfer", S, R, "done", n,
                               None, m))
            /\ r.ret = Some(r.txns[Len(r.txns)])

\* a transfer is stored between two accounts: the sender has given its whole
\* amount and the receiver holds it
C12_Witness ==
    \E i \in DOMAIN txns :
        /\ txns[i].type = "transfer" /\ txns[i].status = "done"
        /\ txns[i].sender_account # txns[i].receiver_account
        /\ AccountOf(accounts, txns[i].receiver_account).amount
               = txns[i].amount
        /\ AccountOf(accounts, txns[i].sender_account).amount = Zero

\* C13: on every reachable ledger, a transfer of n > 0 from an existing
\* sender to a different account succeeds exactly when n <= sender.amount
\* and fails with InsufficientBalance otherwise, whatever the sender's
\* pending is.
C13_TransferChecksAmountOnly ==
    \A u \in AnyUser, v \in AnyUser \cup {UserC},
       n \in AnyAmount \cup ValidAmounts :
        LET S == get_account_no(u)
            R == get_account_no(v)
            r == transfer(accounts, txns, u, v, n, "m")
        IN  (exists(accounts, S) /\ S # R /\ WGt(n, Zero)) =>
                r.err = IF WGt(n, AccountOf(accounts, S).amount)
                        THEN "InsufficientBalanceError" ELSE "none"

\* a sender whose whole amount is reserved by a pending withdraw, and who
\* can still transfer all of it
C13_Witness ==
    \E u \in AnyUser :
        /\ exists(accounts, get_account_no(u))
        /\ LET a == AccountOf(accounts, get_account_no(u))
           IN  /\ WGt(a.amount, Zero)
               /\ a.pending = WNeg(a.amount)
               /\ \E i \in DOMAIN txns :
                      /\ txns[i].type = "withdraw"
                      /\ txns[i].status = "pending"
                      /\ txns[i].sender_account = a.account_no
               /\ transfer(accounts, txns, u, UserC, a.amount, "m").err
                      = "none"

\* C14: on every reachable ledger, a transfer of n > 0 from an existing
\* sender to a different account with sender.amount - n < min_balance fails
\* with InsufficientBalance, changes the amount and pending of no existing
\* account and appends no transaction.
C14_TransferMinBalance ==
    \A u \in AnyUser, v \in AnyUser \cup {UserC},
       n \in AnyAmount \cup ValidAmounts :
        LET S == get_account_no(u)
            R == get_account_no(v)
            r == transfer(accounts, txns, u, v, n, "m")
        IN  (/\ exists(accounts, S) /\ S # R /\ WGt(n, Zero)
             /\ WLt(WSub(AccountOf(accounts, S).amount, n), min_balance)) =>
                /\ r.err = "InsufficientBalanceError"
                /\ r.txns = txns
                /\ \A i \in DOMAIN accounts :
                       /\ r.accounts[i].amount = accounts[i].amount
                       /\ r.accounts[i].pending = accounts[i].pending

\* two accounts exist, the sender holds a positive amount, and a transfer
\* that would take it below min_balance is refused
C14_Witness ==
    /\ Len(accounts) = 2
    /\ \E i \in DOMAIN accounts, j \in DOMAIN accounts :
           /\ i # j
           /\ WGt(accounts[i].amount, Zero)
           /\ WLt(WSub(accounts[i].amount, max_request_amount), min_balance)
           /\ \E u \in UserIds, v \in UserIds :
                  /\ get_account_no(u) = accounts[i].account_no
                  /\ get_account_no(v) = accounts[j].account_no
                  /\ transfer(accounts, txns, u, v, max_request_amount,
                              "m").err = "InsufficientBalanceError"

\* C14 as first stated, without the conditions on the receiver and on the
\* sign of n: on every reachable ledger, every transfer from an existing
\* sender with sender.amount - n < min_balance fails with InsufficientBalance,
\* changes no balance and appends no transaction.  A transfer to the
\* sender's own account number is refused with InvalidTransferError before
\* the balance is looked at.
C14_TransferMinBalanceUnconditional ==
    \A u \in AnyUser, v \in AnyUser \cup {UserC}, n \in AnyAmount \cup ValidAmounts :
        LET S == get_account_no(u)
            r == transfer(accounts, txns, u, v, n, "m")
        IN  (/\ exists(accounts, S)
             /\ WLt(WSub(AccountOf(accounts, S).amount, n), min_balance)) =>
                /\ r.err = "InsufficientBalanceError"
                /\ r.txns = txns
                /\ \A i \in DOMAIN accounts :
                       /\ r.accounts[i].amount = accounts[i].amount
                       /\ r.accounts[i].pending = accounts[i].pending

\* C15: on every reachable ledger, a transfer of more than max_amount
\* (10^12) from an existing sender whose amount covers it, to a different
\* account, fails with InvalidAmount and changes no balance.
C15_TransferCeiling ==
    \A u \in AnyUser, v \in AnyUser \cup {UserC} :
        LET S == get_account_no(u)
            R == get_account_no(v)
            n == WAdd(max_amount, Wide(1))
            r == transfer(accounts, txns, u, v, n, "m")
        IN  (/\ exists(accounts, S) /\ S # R
             /\ ~WGt(n, AccountOf(accounts, S).amount)) =>
                /\ r.err = "InvalidAmountError"
                /\ \A i \in DOMAIN accounts :
                       /\ r.accounts[i].amount = accounts[i].amount
                       /\ r.accounts[i].pending = accounts[i].pending

\* C16: on every reachable ledger, a transfer whose two user ids give the
\* same account number, the sender's account existing, fails with
\* InvalidTransferError for every amount, and leaves both tables as they
\* were: no balance changed, no account created, no transaction appended.
C16_TransferSameAccount ==
    \A u \in AnyUser, v \in AnyUser, n \in AnyAmount \cup ValidAmounts,
       m \in AnyMemo :
        LET r == transfer(accounts, txns, u, v, n, m)
        IN  (/\ get_account_no(u) = get_account_no(v)
             /\ exists(accounts, get_account_no(u))) =>
                /\ r.err = "InvalidTransferError"
                /\ r.accounts = accounts
                /\ r.txns = txns

\* the account of "1234567890" holds a positive amount and a transfer to
\* "9234567890", a different id with the same last 9 characters, is refused
C16_Witness ==
    /\ exists(accounts, get_account_no(UserA))
    /\ UserA # UserA2
    /\ WGt(AccountOf(accounts, get_account_no(UserA)).amount, Zero)
    /\ transfer(accounts, txns, UserA, UserA2, Wide(1), "m").err
           = "InvalidTransferError"

\* C16 as first stated, without the condition that the sender's account
\* exists: on every reachable ledger, every transfer whose two user ids give
\* the same account number fails with InvalidTransferError and leaves both
\* tables as they were.  When no account has that number the sender lookup
\* raises AccountNotFoundError first.
C16_TransferSameAccountUnconditional ==
    \A u \in AnyUser, v \in AnyUser, n \in AnyAmount \cup ValidAmounts, m \in AnyMemo :
        LET r == transfer(accounts, txns, u, v, n, m)
        IN  get_account_no(u) = get_account_no(v) =>
                /\ r.err = "InvalidTransferError"
                /\ r.accounts = accounts
                /\ r.txns = txns

\* C17: on every reachable ledger, a transfer from an existing sender to a
\* user whose account number has no record appends one account row for that
\* number, named by the raw to_user, with pending 0 and share 0, and changes
\* no other row's name or number; the new row's amount is n when the
\* transfer succeeds and 0 when a later validation refuses it.
C17_TransferCreatesReceiver ==
    \A u \in AnyUser, v \in AnyUser \cup {UserC},
       n \in AnyAmount \cup ValidAmounts :
        LET S == get_account_no(u)
            R == get_account_no(v)
            r == transfer(accounts, txns, u, v, n, "m")
        IN  (exists(accounts, S) /\ ~exists(accounts, R)) =>
                /\ r.err \in {"none", "InvalidAmountError",
                              "InsufficientBalanceError"}
                /\ Len(r.accounts) = Len(accounts) + 1
                /\ r.accounts[Len(r.accounts)]
                       = Account(Len(accounts) + 1, R, v,
                                 IF r.err = "none" THEN n ELSE Zero, Zero, 0)
                /\ \A i \in DOMAIN accounts :
                       /\ r.accounts[i].account_no = accounts[i].account_no
                       /\ r.accounts[i].name = accounts[i].name

\* an account created by a transfer to "1234567890": its name is the raw
\* 10-character id, its number the last 9 characters, and it holds the
\* transferred amount
C17_Witness ==
    \E i \in DOMAIN accounts, j \in DOMAIN txns :
        /\ accounts[i].name = UserA
        /\ accounts[i].account_no = Last9(UserA)
        /\ accounts[i].name # accounts[i].account_no
        /\ txns[j].type = "transfer"
        /\ txns[j].receiver_account = accounts[i].account_no
        /\ accounts[i].amount = txns[j].amount
        /\ accounts[i].pending = Zero /\ accounts[i].share = 0

----------------------------------------------------------------------------
(* C18: amount bounds *)

\* C18: on every reachable ledger and for every existing account, deposit,
\* withdraw and donate refuse with InvalidAmount exactly the amounts outside
\* 1..10^12, and request exactly those outside 1..10^11, leaving both tables
\* as they were; inside the range deposit and request succeed, and withdraw
\* and donate succeed unless the balance check refuses them.
C18_AmountBounds ==
    \A type \in {"deposit", "request", "withdraw", "donate"}, u \in AnyUser,
       n \in AnyAmount \cup ValidAmounts \cup BoundaryAmounts :
        LET no == get_account_no(u)
            ceiling == IF type = "request" THEN W(100, 0) ELSE W(1000, 0)
            r == Created(type, accounts, txns, u, n, "m")
        IN  exists(accounts, no) =>
            IF WLt(n, Wide(1)) \/ WGt(n, ceiling)
            THEN /\ r.err = "InvalidAmountError"
                 /\ r.txns = txns
                 /\ r.accounts = accounts
            ELSE IF type \in {"deposit", "request"}
            THEN r.err = "none"
            ELSE LET a == AccountOf(accounts, no)
                 IN  r.err = IF WGt(n, WSub(a.amount, a.pending))
                             THEN "InsufficientBalanceError" ELSE "none"

\* an account that holds the ceiling: withdraw and donate of exactly 10^12
\* and of 1 succeed, of 10^12 + 1 and of 0 are invalid, and a request of
\* 10^11 succeeds while one of 10^11 + 1 is invalid
C18_Witness ==
    \E u \in UserIds :
        /\ exists(accounts, get_account_no(u))
        /\ AccountOf(accounts, get_account_no(u)).amount = max_amount
        /\ withdraw(accounts, txns, u, max_amount, "m").err = "none"
        /\ donate(accounts, txns, u, Wide(1), "m").err = "none"
        /\ withdraw(accounts, txns, u, WAdd(max_amount, Wide(1)), "m").err
               = "InvalidAmountError"
        /\ donate(accounts, txns, u, Wide(0), "m").err = "InvalidAmountError"
        /\ request(accounts, txns, u, max_request_amount, "m").err = "none"
        /\ request(accounts, txns, u, WAdd(max_request_amount, Wide(1)),
                   "m").err = "InvalidAmountError"

----------------------------------------------------------------------------
(* C19, C20: accounts and account numbers *)

\* C19: on every reachable ledger, create_account(user_id, name) fails with
\* AccountAlreadyExists when a row with the derived account number exists,
\* however that row was created, and leaves both tables as they were;
\* otherwise it appends one row with that number, the given name, amount 0,
\* pending 0 and share 0, returns it, and changes no other row.
C19_Register ==
    \A u \in AnyUser \cup {UserC}, name \in AnyName :
        LET no == get_account_no(u)
            r == create_account(accounts, txns, u, name)
        IN  IF \E i \in DOMAIN accounts : accounts[i].account_no = no
            THEN /\ r.err = "AccountAlreadyExistsError"
                 /\ r.accounts = accounts
                 /\ r.txns = txns
            ELSE /\ r.err = "none"
                 /\ r.accounts = Append(accounts,
                        Account(Len(accounts) + 1, no, name, Zero, Zero, 0))
                 /\ r.ret = Some(r.accounts[Len(r.accounts)])
                 /\ r.txns = txns

\* the account of "1234567890" was created by a transfer (its name is the
\* raw id) and holds a non-zero amount, "42" was registered, and registering
\* "9234567890" is refused
C19_Witness ==
    /\ \E i \in DOMAIN accounts :
           /\ accounts[i].account_no = Last9(UserA)
           /\ accounts[i].name = UserA
           /\ accounts[i].amount # Zero
    /\ \E i \in DOMAIN accounts :
           accounts[i].account_no = UserB /\ accounts[i].name = <<"A">>
    /\ create_account(accounts, txns, UserA2, <<"B">>).err
           = "AccountAlreadyExistsError"
    /\ create_account(accounts, txns, UserC, <<"B">>).err = "none"

\* user ids of 0, 1, 2, 9, 10 and 11 characters
AnyUserId ==
    AnyUser \cup
    {<<>>, UserC, SubSeq(UserA, 2, 10), <<"5">> \o UserA}

\* every call that takes one user id, as a function of that id
CallsOf(u) ==
    [create_account |-> create_account(accounts, txns, u, <<"B">>),
     get_balance |-> get_balance(accounts, txns, u),
     deposit |-> [n \in AnyAmount |-> deposit(accounts, txns, u, n, "m")],
     withdraw |-> [n \in AnyAmount |-> withdraw(accounts, txns, u, n, "m")],
     request |-> [n \in AnyAmount |-> request(accounts, txns, u, n, "m")],
     donate |-> [n \in AnyAmount |-> donate(accounts, txns, u, n, "m")],
     transfer_from |-> [n \in AnyAmount |->
                          transfer(accounts, txns, u, UserB, n, "m")],
     pull_transactions |-> [n \in Limits |->
                              pull_transactions(accounts, txns, u, n)]]

\* C20: the account number of a user id is its last 9 characters, or the
\* whole id when it has at most 9; on every reachable ledger two ids with
\* the same last 9 characters get the same outcome, tables and return value
\* from every method (as the receiver of a transfer too, where only the name
\* given to a newly created row is the raw id), and deposit, withdraw,
\* request, donate and create_account leave every row with another account
\* number as it was.
C20_AccountNoDerivation ==
    /\ \A u \in AnyUserId :
           LET no == get_account_no(u)
               k == IF Len(u) < 9 THEN Len(u) ELSE 9
           IN  /\ Len(no) = k
               /\ \A i \in 1..k : no[i] = u[Len(u) - k + i]
    /\ CallsOf(UserA) = CallsOf(UserA2)
    /\ \A n \in AnyAmount :
           LET r1 == transfer(accounts, txns, UserB, UserA, n, "m")
               r2 == transfer(accounts, txns, UserB, UserA2, n, "m")
           IN  /\ r1.err = r2.err /\ r1.txns = r2.txns /\ r1.ret = r2.ret
               /\ Len(r1.accounts) = Len(r2.accounts)
               /\ \A i \in DOMAIN r1.accounts :
                      /\ [r1.accounts[i] EXCEPT !.name = <<>>]
                             = [r2.accounts[i] EXCEPT !.name = <<>>]
                      /\ i \in DOMAIN accounts =>
                             r1.accounts[i] = r2.accounts[i]
    /\ \A u \in AnyUser, n \in AnyAmount,
          type \in {"deposit", "request", "withdraw", "donate"} :
           LET r == Created(type, accounts, txns, u, n, "m")
           IN  \A i \in DOMAIN accounts :
                   accounts[i].account_no # get_account_no(u) =>
                       r.accounts[i] = accounts[i]

\* the account "234567890" holds an amount and a pending value, a second
\* account exists, and "9234567890" reads that balance and can deposit to it
C20_Witness ==
    /\ Len(accounts) = 2
    /\ exists(accounts, Last9(UserA))
    /\ AccountOf(accounts, Last9(UserA)).amount # Zero
    /\ AccountOf(accounts, Last9(UserA)).pending # Zero
    /\ get_balance(accounts, txns, UserA2).err = "none"
    /\ get_balance(accounts, txns, UserA2)
           = get_balance(accounts, txns, UserA)
    /\ deposit(accounts, txns, UserA2, Wide(1), "m").err = "none"

----------------------------------------------------------------------------
(* C21: unknown transaction ids *)

\* transaction ids a caller may pass: stored ones and ones never assigned
AnyTxnId == (-1)..(MaxTxns + 2)

\* C21: on every reachable ledger, approve_transaction and deny_transaction
\* of an id that no stored transaction has, by any operator, fail with
\* TransactionNotFound and leave both tables as they were.
C21_UnknownTransaction ==
    \A id \in AnyTxnId, op \in AnyOperator :
        (\A i \in DOMAIN txns : txns[i].id # id) =>
            LET a == approve_transaction(accounts, txns, id, op)
                d == deny_transaction(accounts, txns, id, op)
            IN  /\ a.err = "TransactionNotFoundError"
                /\ a.accounts = accounts /\ a.txns = txns
                /\ d.err = "TransactionNotFoundError"
                /\ d.accounts = accounts /\ d.txns = txns

\* an approved deposit and a pending withdraw are stored, and the next id
\* and id 0, which no transaction has, are refused
C21_Witness ==
    /\ \E i \in DOMAIN txns :
           txns[i].status = "done" /\ txns[i].type = "deposit"
    /\ \E i \in DOMAIN txns :
           txns[i].status = "pending" /\ txns[i].type = "withdraw"
    /\ approve_transaction(accounts, txns, Len(txns) + 1, "admin").err
           = "TransactionNotFoundError"
    /\ deny_transaction(accounts, txns, 0, "admin").err
           = "TransactionNotFoundError"

----------------------------------------------------------------------------
(* C22: the operator field *)

\* C22: in every reachable state a pending transaction and a transfer have
\* no operator and every other done or denied transaction has one; a
\* successful approve_transaction or deny_transaction stores exactly its
\* operator argument in the transaction it settles, changes the operator of
\* no other transaction, and no other call changes any operator.
C22_OperatorField ==
    /\ \A i \in DOMAIN txns :
           IF txns[i].status = "pending" \/ txns[i].type = "transfer"
           THEN txns[i].operator = None
           ELSE \E op \in Operators : txns[i].operator = Some(op)
    /\ \A id \in TxnIds, op \in AnyOperator :
           LET a == approve_transaction(accounts, txns, id, op)
               d == deny_transaction(accounts, txns, id, op)
           IN  /\ a.err = "none" =>
                   /\ a.txns[id].operator = Some(op)
                   /\ \A i \in DOMAIN txns :
                          i # id => a.txns[i].operator = txns[i].operator
               /\ d.err = "none" =>
                   /\ d.txns[id].operator = Some(op)
                   /\ \A i \in DOMAIN txns :
                          i # id => d.txns[i].operator = txns[i].operator
    /\ \A c \in Calls :
           c.op \notin {"approve_transaction", "deny_transaction"} =>
               \A i \in DOMAIN txns :
                   c.out.txns[i].operator = txns[i].operator

\* a deposit approved by "admin" and the transfer of the deposited amount,
\* which has no operator
C22_Witness ==
    \E i \in DOMAIN txns, j \in DOMAIN txns :
        /\ txns[i].type = "deposit" /\ txns[i].operator = Some("admin")
        /\ txns[j].type = "transfer" /\ txns[j].operator = None
        /\ txns[j].sender_account = txns[i].receiver_account
        /\ i < j

----------------------------------------------------------------------------
(* C23, C24: the two tables only grow *)

\* C23: in every reachable state the ids of the log are 1, 2, ... in order
\* of creation; whatever method is called, every stored transaction stays at
\* its place with its id, type, sender, receiver, amount and memo; only a
\* successful deposit, withdraw, request, donate or transfer appends, exactly
\* one row with the next id and the type of the call, pending for the first
\* four and done for a transfer.
C23_AppendOnlyLog ==
    /\ \A i \in DOMAIN txns : txns[i].id = i
    /\ \A c \in Calls :
           LET new == c.out.txns
           IN  /\ Len(new) >= Len(txns)
               /\ \A i \in DOMAIN txns :
                      /\ new[i].id = txns[i].id
                      /\ new[i].type = txns[i].type
                      /\ new[i].sender_account = txns[i].sender_account
                      /\ new[i].receiver_account = txns[i].receiver_account
                      /\ new[i].amount = txns[i].amount
                      /\ new[i].memo = txns[i].memo
               /\ Len(new) > Len(txns) =>
                      /\ c.out.err = "none"
                      /\ Len(new) = Len(txns) + 1
                      /\ new[Len(new)].id = Len(txns) + 1
                      /\ \A i \in DOMAIN txns : txns[i].id < new[Len(new)].id
                      /\ c.op \in {"deposit", "withdraw", "request",
                                   "donate", "transfer"}
                      /\ new[Len(new)].type = c.op
                      /\ new[Len(new)].status
                             = IF c.op = "transfer" THEN "done" ELSE "pending"
               /\ (c.out.err = "none"
                   /\ c.op \in {"deposit", "withdraw", "request", "donate",
                                "transfer"}) => Len(new) = Len(txns) + 1

\* a log of two transactions, a settled one and then a pending one, with
\* room for every kind of call to succeed or fail on it
C23_Witness ==
    /\ Len(txns) = 2
    /\ txns[1].status \in {"done", "denied"}
    /\ txns[2].status = "pending"
    /\ txns[1].type # txns[2].type
    /\ \E c \in Calls : c.op = "transfer" /\ c.out.err = "none"

\* C24: in every reachable state no two account rows have the same account
\* number and every share is 0; whatever method is called, every existing
\* row stays at its place with its id, account number, name and share, and
\* only a successful create_account or a transfer adds a row, exactly one.
C24_AccountsPersist ==
    /\ \A i \in DOMAIN accounts, j \in DOMAIN accounts :
           accounts[i].account_no = accounts[j].account_no => i = j
    /\ \A i \in DOMAIN accounts : accounts[i].share = 0 /\ accounts[i].id = i
    /\ \A c \in Calls :
           LET new == c.out.accounts
           IN  /\ Len(new) >= Len(accounts)
               /\ \A i \in DOMAIN accounts :
                      /\ new[i].id = accounts[i].id
                      /\ new[i].account_no = accounts[i].account_no
                      /\ new[i].name = accounts[i].name
                      /\ new[i].share = accounts[i].share
               /\ Len(new) > Len(accounts) =>
                      /\ Len(new) = Len(accounts) + 1
                      /\ \/ c.op = "create_account" /\ c.out.err = "none"
                         \/ c.op = "transfer"
                      /\ \A i \in DOMAIN accounts :
                             accounts[i].account_no
                                 # new[Len(new)].account_no

\* a registered account and one created by a transfer, which received an
\* amount; registering either again is refused
C24_Witness ==
    /\ Len(accounts) = 2
    /\ \E i \in DOMAIN accounts : accounts[i].name = <<"A">>
    /\ \E i \in DOMAIN accounts :
           /\ accounts[i].name # <<"A">>
           /\ accounts[i].amount # Zero
    /\ \A c \in Calls : c.op = "create_account" =>
           c.out.err = "AccountAlreadyExistsError"

----------------------------------------------------------------------------
(* C25, C26, C27: the queries *)

\* the caps a caller asks for
AnyLimit == 0..(MaxTxns + 1)

\* the stored transactions pull_transactions is to report for an account
Reported(rows, account_no) ==
    {i \in DOMAIN rows :
        /\ rows[i].sender_account = account_no
           \/ rows[i].receiver_account = account_no
        /\ rows[i].status # "denied"}

\* C25: on every reachable ledger and for every n >= 0, pull_transactions
\* succeeds and returns stored transactions of the account (as sender or
\* receiver) that are not denied, each once, by descending id, as many as n
\* allows and the newest ones first; after deny_transaction of one of them it
\* is no longer returned.
C25_PullTransactions ==
    \A u \in AnyUser \cup {UserC}, n \in AnyLimit :
        LET no == get_account_no(u)
            r == pull_transactions(accounts, txns, u, n)
            want == Reported(txns, no)
            got == {r.ret[k].id : k \in DOMAIN r.ret}
        IN  /\ r.err = "none"
            /\ r.accounts = accounts /\ r.txns = txns
            /\ Len(r.ret)
                   = IF n < Cardinality(want) THEN n ELSE Cardinality(want)
            /\ \A k \in DOMAIN r.ret :
                   /\ r.ret[k].id \in want
                   /\ r.ret[k] = txns[r.ret[k].id]
                   /\ r.ret[k].status # "denied"
                   /\ k > 1 => r.ret[k].id < r.ret[k - 1].id
            /\ \A i \in want \ got : \A j \in got : i < j
            /\ \A i \in want, op \in AnyOperator :
                   LET d == deny_transaction(accounts, txns, i, op)
                       after == pull_transactions(d.accounts, d.txns, u,
                                                  Len(txns)).ret
                   IN  d.err = "none" =>
                           \A k \in DOMAIN after : after[k].id # i

\* an account with a settled transaction that then sent a transfer, and one
\* that only received the transfer: a report of two rows, which n = 1 cuts
\* to the newest
C25_Witness ==
    \E u \in UserIds, v \in UserIds :
        /\ Cardinality(Reported(txns, get_account_no(u))) = 2
        /\ Cardinality(Reported(txns, get_account_no(v))) = 1
        /\ \E i \in DOMAIN txns :
               /\ txns[i].type = "transfer"
               /\ txns[i].receiver_account = get_account_no(v)
        /\ pull_transactions(accounts, txns, u, 1).ret = <<txns[2]>>

\* the stored transactions that are pending
Pending(rows) == {i \in DOMAIN rows : rows[i].status = "pending"}

\* C26: on every reachable ledger and for every limit >= 0,
\* get_pending_transactions succeeds and returns pending stored
\* transactions only, by ascending id, min(limit, number pending) of them
\* and the oldest ones first; after approve_transaction or deny_transaction
\* of one of them it is no longer returned.
C26_GetPendingTransactions ==
    \A n \in AnyLimit :
        LET r == get_pending_transactions(accounts, txns, n)
            want == Pending(txns)
            got == {r.ret[k].id : k \in DOMAIN r.ret}
        IN  /\ r.err = "none"
            /\ r.accounts = accounts /\ r.txns = txns
            /\ Len(r.ret)
                   = IF n < Cardinality(want) THEN n ELSE Cardinality(want)
            /\ \A k \in DOMAIN r.ret :
                   /\ r.ret[k].id \in want
                   /\ r.ret[k] = txns[r.ret[k].id]
                   /\ r.ret[k].status = "pending"
                   /\ k > 1 => r.ret[k].id > r.ret[k - 1].id
            /\ \A i \in want \ got : \A j \in got : i > j
            /\ \A i \in want, op \in AnyOperator :
                   LET a == approve_transaction(accounts, txns, i, op)
                       d == deny_transaction(accounts, txns, i, op)
                       left(t) == get_pending_transactions(
                                      accounts, t, Len(txns)).ret
                   IN  /\ a.err = "none" /\ d.err = "none"
                       /\ \A k \in DOMAIN left(a.txns) :
                              left(a.txns)[k].id # i
                       /\ \A k \in DOMAIN left(d.txns) :
                              left(d.txns)[k].id # i

\* two pending transactions of different accounts: limit 1 returns the
\* older one
C26_Witness ==
    /\ Pending(txns) = {1, 2}
    /\ txns[1].receiver_account # txns[2].receiver_account
    /\ get_pending_transactions(accounts, txns, 1).ret = <<txns[1]>>
    /\ get_pending_transactions(accounts, txns, 0).ret = <<>>

\* C27: on every reachable ledger, get_balance(user_id) returns the pair
\* (amount, pending) of the row whose account number is the last 9
\* characters of user_id, fails with AccountNotFound when there is no such
\* row, and leaves both tables as they were.
C27_GetBalance ==
    \A u \in AnyUserId :
        LET r == get_balance(accounts, txns, u)
            rows == {i \in DOMAIN accounts :
                        accounts[i].account_no = get_account_no(u)}
        IN  /\ r.accounts = accounts /\ r.txns = txns
            /\ IF rows = {}
               THEN r.err = "AccountNotFoundError"
               ELSE /\ r.err = "none"
                    /\ \A i \in rows :
                           r.ret = <<accounts[i].amount, accounts[i].pending>>

\* an account with different non-zero amount and pending, read through both
\* of its user ids, while "7" has no account
C27_Witness ==
    /\ exists(accounts, Last9(UserA))
    /\ LET a == AccountOf(accounts, Last9(UserA))
       IN  /\ a.amount # Zero /\ a.pending # Zero /\ a.amount # a.pending
           /\ get_balance(accounts, txns, UserA2).ret
                  = <<a.amount, a.pending>>
    /\ get_balance(accounts, txns, UserC).err = "AccountNotFoundError"

----------------------------------------------------------------------------
(* C28, C29: what the log holds *)

\* C28: in every reachable state a deposit, withdraw, request or donate has
\* sender equal to receiver, a transfer has sender different from receiver
\* and is done, so every pending transaction is of one of the four audited
\* types and approve_transaction and deny_transaction settle it in the
\* branch of its type; every row a call appends is of that shape.
C28_SenderReceiverShape ==
    /\ \A i \in DOMAIN txns :
           /\ txns[i].type \in {"deposit", "withdraw", "request", "donate",
                                "transfer"}
           /\ txns[i].type # "transfer" =>
                  txns[i].sender_account = txns[i].receiver_account
           /\ txns[i].type = "transfer" =>
                  /\ txns[i].sender_account # txns[i].receiver_account
                  /\ txns[i].status = "done"
           /\ txns[i].status = "pending" =>
                  txns[i].type \in {"deposit", "withdraw", "request",
                                    "donate"}
    /\ \A u \in AnyUser, v \in AnyUser \cup {UserC}, n \in AnyAmount :
           LET r == transfer(accounts, txns, u, v, n, "m")
           IN  r.err = "none" =>
                   /\ r.ret[1].type = "transfer"
                   /\ r.ret[1].sender_account # r.ret[1].receiver_account
                   /\ r.ret[1].status = "done"
                   /\ r.txns[Len(r.txns)] = r.ret[1]
    /\ \A type \in {"deposit", "withdraw", "request", "donate"},
          u \in AnyUser, n \in AnyAmount :
           LET r == Created(type, accounts, txns, u, n, "m")
           IN  r.err = "none" =>
                   /\ r.ret[1].type = type
                   /\ r.ret[1].sender_account = r.ret[1].receiver_account
                   /\ r.txns[Len(r.txns)] = r.ret[1]
    /\ \A id \in DOMAIN txns, op \in AnyOperator :
           (approve_transaction(accounts, txns, id, op).err = "none"
            \/ deny_transaction(accounts, txns, id, op).err = "none") =>
               txns[id].type # "transfer"

\* a request of one account and a done transfer between two accounts are
\* stored, and the transfer can be neither approved nor denied
C28_Witness ==
    \E i \in DOMAIN txns, j \in DOMAIN txns :
        /\ txns[i].type = "transfer" /\ txns[i].status = "done"
        /\ txns[i].sender_account # txns[i].receiver_account
        /\ txns[j].type = "request"
        /\ txns[j].sender_account = txns[j].receiver_account
        /\ approve_transaction(accounts, txns, i, "admin").err
               = "InvalidTransactionStatusError"
        /\ deny_transaction(accounts, txns, i, "admin").err
               = "InvalidTransactionStatusError"

\* C29: in every reachable state every stored transaction has an amount of
\* at least 1, and whatever amount deposit, withdraw, request, donate or
\* transfer is called with, a row is appended only when that amount is at
\* least 1, and holds exactly that amount.
C29_PositiveAmounts ==
    /\ \A i \in DOMAIN txns : ~WLt(txns[i].amount, Wide(1))
    /\ \A u \in AnyUser, n \in AnyAmount \cup BoundaryAmounts,
          op \in {"deposit", "withdraw", "request", "donate"} :
           LET r == Created(op, accounts, txns, u, n, "m")
           IN  IF WLt(n, Wide(1))
               THEN r.txns = txns /\ r.err # "none"
               ELSE r.txns # txns =>
                        /\ Len(r.txns) = Len(txns) + 1
                        /\ r.txns[Len(r.txns)].amount = n
    /\ \A u \in AnyUser, v \in AnyUser \cup {UserC},
          n \in AnyAmount \cup BoundaryAmounts :
           LET r == transfer(accounts, txns, u, v, n, "m")
           IN  IF WLt(n, Wide(1))
               THEN r.txns = txns /\ r.err # "none"
               ELSE r.txns # txns =>
                        /\ Len(r.txns) = Len(txns) + 1
                        /\ r.txns[Len(r.txns)].amount = n

\* an account holding an amount, against which withdraw, donate and transfer
\* of 1 succeed and of 0 and -1 are refused, with two transactions stored
C29_Witness ==
    /\ Len(txns) = 2
    /\ \E u \in UserIds :
           /\ withdraw(accounts, txns, u, Wide(1), "m").err = "none"
           /\ transfer(accounts, txns, u, UserC, Wide(1), "m").err = "none"
           /\ withdraw(accounts, txns, u, Wide(0), "m").err
                  = "InvalidAmountError"
           /\ transfer(accounts, txns, u, UserC, Wide(-1), "m").err
                  = "InvalidAmountError"

----------------------------------------------------------------------------
(* C30: the errors *)

\* the outcome of every method on the current tables, for every argument a
\* caller may pass
AllOutcomes ==
    {create_account(accounts, txns, u, name) :
        u \in AnyUserId, name \in AnyName}
    \cup {get_balance(accounts, txns, u) : u \in AnyUserId}
    \cup {Created(type, accounts, txns, u, n, "") :
            type \in {"deposit", "request", "withdraw", "donate"},
            u \in AnyUser \cup {UserC, <<>>},
            n \in AnyAmount \cup BoundaryAmounts}
    \cup {transfer(accounts, txns, u, v, n, "") :
            u \in AnyUser \cup {UserC}, v \in AnyUser \cup {UserC, <<>>},
            n \in {Wide(-1), Wide(0), Wide(1), Wide(3),
                   WAdd(max_amount, Wide(1))}}
    \cup {approve_transaction(accounts, txns, id, op) :
            id \in AnyTxnId, op \in AnyOperator}
    \cup {deny_transaction(accounts, txns, id, op) :
            id \in AnyTxnId, op \in AnyOperator}
    \cup {pull_transactions(accounts, txns, u, n) :
            u \in AnyUserId, n \in AnyLimit \cup Limits}
    \cup {get_pending_transactions(accounts, txns, n) :
            n \in AnyLimit \cup Limits}

\* C30: on every reachable ledger every method, for every argument, either
\* succeeds or fails with one of AccountNotFound, AccountAlreadyExists,
\* InvalidAmount, InsufficientBalance, InvalidTransferError,
\* TransactionNotFound, InvalidTransactionStatus, never with
\* UnauthorizedError; each of the eight classes derives directly from
\* BankError.
C30_ErrorTaxonomy ==
    LET raised == {"AccountNotFoundError", "AccountAlreadyExistsError",
                   "InvalidAmountError", "InsufficientBalanceError",
                   "InvalidTransferError", "TransactionNotFoundError",
                   "InvalidTransactionStatusError"}
    IN  /\ \A r \in AllOutcomes : r.err \in raised \cup {"none"}
        /\ \A e \in raised \cup {"UnauthorizedError"} :
               e \in DOMAIN ErrorBase /\ ErrorBase[e] = "BankError"
        /\ DOMAIN ErrorBase = raised \cup {"UnauthorizedError", "BankError"}

\* a ledger on which each of the seven errors is raised by some call
C30_Witness ==
    {r.err : r \in AllOutcomes} =
        {"none", "AccountNotFoundError", "AccountAlreadyExistsError",
         "InvalidAmountError", "InsufficientBalanceError",
         "InvalidTransferError", "TransactionNotFoundError",
         "InvalidTransactionStatusError"}

----------------------------------------------------------------------------
(* C31: the order of the validations *)

\* C31: on every reachable ledger the error of deposit, withdraw, request and
\* donate is decided in the order account (AccountNotFound), amount
\* (InvalidAmount), and for withdraw and donate balance
\* (InsufficientBalance); the error of transfer in the order sender
\* (AccountNotFound), then the receiver is created if absent, same account
\* (InvalidTransferError), amount > 0 (InvalidAmount), settled amount and
\* floor (InsufficientBalance).
C31_ValidationOrder ==
    /\ \A type \in {"deposit", "request", "withdraw", "donate"},
          u \in AnyUser \cup {UserC}, n \in AnyAmount \cup BoundaryAmounts :
           LET no == get_account_no(u)
               ceiling == IF type = "request" THEN max_request_amount
                          ELSE max_amount
               r == Created(type, accounts, txns, u, n, "m")
           IN  r.err =
                 IF ~exists(accounts, no) THEN "AccountNotFoundError"
                 ELSE IF WLt(n, Wide(1)) \/ WGt(n, ceiling)
                 THEN "InvalidAmountError"
                 ELSE IF /\ type \in {"withdraw", "donate"}
                         /\ WGt(n, WSub(AccountOf(accounts, no).amount,
                                        AccountOf(accounts, no).pending))
                 THEN "InsufficientBalanceError"
                 ELSE "none"
    /\ \A u \in AnyUser \cup {UserC}, v \in AnyUser \cup {UserC},
          n \in AnyAmount \cup BoundaryAmounts :
           LET S == get_account_no(u)
               R == get_account_no(v)
               r == transfer(accounts, txns, u, v, n, "m")
           IN  IF ~exists(accounts, S)
               THEN r.err = "AccountNotFoundError" /\ r.accounts = accounts
               ELSE /\ exists(r.accounts, R)
                    /\ r.err =
                         IF S = R THEN "InvalidTransferError"
                         ELSE IF WLt(n, Wide(1)) THEN "InvalidAmountError"
                         ELSE IF WGt(n, AccountOf(accounts, S).amount)
                         THEN "InsufficientBalanceError"
                         ELSE IF WLt(WSub(AccountOf(accounts, S).amount, n),
                                     min_balance)
                         THEN "InsufficientBalanceError"
                         ELSE "none"

\* a ledger where several checks apply at once: "7" is unregistered and
\* deposits 0, "1234567890" transfers 0 to its alias, withdraws more than the
\* ceiling, and transfers -1 to the absent "7"
C31_Witness ==
    /\ ~exists(accounts, get_account_no(UserC))
    /\ exists(accounts, get_account_no(UserA))
    /\ WGt(AccountOf(accounts, get_account_no(UserA)).amount, Zero)
    /\ deposit(accounts, txns, UserC, Wide(0), "m").err
           = "AccountNotFoundError"
    /\ transfer(accounts, txns, UserA, UserA2, Wide(0), "m").err
           = "InvalidTransferError"
    /\ withdraw(accounts, txns, UserA, WAdd(max_amount, Wide(1)), "m").err
           = "InvalidAmountError"
    /\ transfer(accounts, txns, UserA, UserC, Wide(-1), "m").err
           = "InvalidAmountError"
    /\ transfer(accounts, txns, UserC, UserC, Wide(0), "m").err
           = "AccountNotFoundError"

----------------------------------------------------------------------------
(* C32: atomicity of transfer *)

\* a transfer is in progress: the last store call of a successful transfer
\* is the insert of its transaction row
TransferInProgress ==
    /\ inflight # <<>>
    /\ inflight[Len(inflight)].call = "TransactionRepository.create"
    /\ inflight[Len(inflight)].transaction.type = "transfer"

\* C32: transfer updates both accounts atomically: no committed step that
\* starts or continues a transfer changes the sum of the settled amounts, so
\* that no
\* state, seen during the transfer or left by its interruption, has the
\* sender debited and the receiver not credited.
C32_TransferAtomic ==
    [][(TransferInProgress \/ TransferInProgress') => SumAmount(accounts') = SumAmount(accounts)]_vars

----------------------------------------------------------------------------
(* C33: the min_balance floor *)

\* C33: min_balance is the minimum allowed balance: on every reachable
\* ledger every account's settled amount is at least min_balance, and it
\* still is after any two further successful withdraw or donate calls of the
\* same user are approved.
C33_MinBalanceFloor ==
    /\ \A i \in DOMAIN accounts : ~WLt(accounts[i].amount, min_balance)
    /\ \A u \in UserIds, t1 \in {"withdraw", "donate"}, t2 \in {"withdraw", "donate"}, n1 \in {Wide(1), max_amount}, n2 \in {Wide(1), max_amount} :
        LET r1 == Created(t1, accounts, txns, u, n1, "m")
            r2 == Created(t2, r1.accounts, r1.txns, u, n2, "m")
            a1 == approve_transaction(r2.accounts, r2.txns, r1.ret[1].id, "admin")
            a2 == approve_transaction(a1.accounts, a1.txns, r2.ret[1].id, "admin")
        IN  (r1.err = "none" /\ r2.err = "none" /\ a1.err = "none" /\ a2.err = "none") =>
            \A i \in DOMAIN a2.accounts : ~WLt(a2.accounts[i].amount, min_balance)

----------------------------------------------------------------------------
(* C34, C35: the accounts reconcile with the log *)

\* the sum of the amounts of the log's transactions of one account with the
\* given types and status
SumLog(rows, account_no, types, status) ==
    SumAmount(SelectSeq(rows, LAMBDA t : t.receiver_account = account_no /\ t.type \in types /\ t.status = status))

\* C34: on every reachable ledger (between completed operations) the pending
\* of every account equals the sum of its pending deposits and requests
\* minus the sum of its pending withdraws and donates; an account with no
\* pending transaction has pending 0.
C34_PendingReconciles ==
    \A i \in DOMAIN accounts :
        LET no == accounts[i].account_no
        IN  /\ accounts[i].pending = WSub(SumLog(txns, no, {"deposit", "request"}, "pending"), SumLog(txns, no, {"withdraw", "donate"}, "pending"))
            /\ (\A k \in DOMAIN txns : txns[k].receiver_account = no => txns[k].status # "pending") => accounts[i].pending = Zero

\* a ledger with a settled transaction and a pending withdrawal or donation
\* of 1, whose account has pending -1
C34_Witness ==
    \E i \in DOMAIN accounts :
        /\ accounts[i].pending = Wide(-1)
        /\ \E k \in DOMAIN txns : txns[k].type \in {"withdraw", "donate"} /\ txns[k].status = "pending" /\ txns[k].receiver_account = accounts[i].account_no
        /\ \E k \in DOMAIN txns : txns[k].status = "done"

\* the sum of the amounts of the transfers with the given field equal to
\* the account
SumTransfers(rows, account_no, side) ==
    SumAmount(SelectSeq(rows, LAMBDA t : t.type = "transfer" /\ t.status = "done" /\ (IF side = "sender" THEN t.sender_account ELSE t.receiver_account) = account_no))

\* C35: on every reachable ledger (between completed operations) the settled
\* amount of every account equals its done deposits and requests minus its
\* done withdraws and donates plus the transfers it received minus the
\* transfers it sent; pending and denied transactions contribute nothing.
C35_AmountFromLog ==
    \A i \in DOMAIN accounts :
        LET no == accounts[i].account_no
        IN  accounts[i].amount =
                WSub(WAdd(WSub(SumLog(txns, no, {"deposit", "request"}, "done"), SumLog(txns, no, {"withdraw", "donate"}, "done")), SumTransfers(txns, no, "receiver")), SumTransfers(txns, no, "sender"))

\* a transfer moved an approved deposit: the sender is back at 0 and the
\* receiver holds 1
C35_Witness ==
    /\ Len(txns) = 2
    /\ txns[1].type \in {"deposit", "request"} /\ txns[1].status = "done"
    /\ txns[2].type = "transfer"
    /\ \E i \in DOMAIN accounts : accounts[i].account_no = txns[2].sender_account /\ accounts[i].amount = Zero
    /\ \E i \in DOMAIN accounts : accounts[i].account_no = txns[2].receiver_account /\ accounts[i].amount = Wide(1)

----------------------------------------------------------------------------
(* C36: what a rejected transfer leaves behind *)

\* C36: on every reachable ledger, a transfer refused with InvalidAmount or
\* InsufficientBalance whose receiver had no account appends the receiver's
\* account with amount 0 and pending 0 and changes nothing else: the rows
\* that existed and the log are as before, and a later create_account for
\* the receiver fails with AccountAlreadyExists.  A transfer refused with
\* AccountNotFound leaves both tables unchanged.
C36_RejectedTransferKeepsReceiver ==
    \A u \in AnyUser \cup {UserC}, v \in AnyUser \cup {UserC}, n \in AnyAmount :
        LET R == get_account_no(v)
            r == transfer(accounts, txns, u, v, n, "m")
        IN  /\ (r.err \in {"InvalidAmountError", "InsufficientBalanceError"} /\ ~exists(accounts, R)) =>
                /\ r.accounts = Append(accounts, Account(Len(accounts) + 1, R, v, Zero, Zero, 0))
                /\ r.txns = txns
                /\ \A name \in AnyName : create_account(r.accounts, r.txns, v, name).err = "AccountAlreadyExistsError"
            /\ r.err = "AccountNotFoundError" =>
                /\ ~exists(accounts, get_account_no(u))
                /\ r.accounts = accounts
                /\ r.txns = txns

\* an account left by a refused transfer: it is named by the raw user id,
\* holds nothing, and the log has no transfer
C36_Witness ==
    /\ \E i \in DOMAIN accounts :
        /\ accounts[i].name \in UserIds
        /\ accounts[i].amount = Zero /\ accounts[i].pending = Zero
    /\ \A k \in DOMAIN txns : txns[k].type # "transfer"
    /\ \E u \in UserIds : create_account(accounts, txns, u, <<"A">>).err = "AccountAlreadyExistsError"

----------------------------------------------------------------------------
(* C37: transfer's min_balance check is dead *)

\* C37: min_balance is at most 0, and in every state, also one left by an
\* interrupted call, for every existing sender: a transfer to another
\* account of an amount n with 0 < n <= sender.amount succeeds (the
\* min_balance check refuses nothing that the earlier checks let through),
\* the sender's amount after a successful transfer is at least 0, and a
\* sender whose amount is negative is refused every transfer.
C37_MinBalanceCheckIsDead ==
    /\ ~WGt(min_balance, Zero)
    /\ \A u \in UserIds, v \in UserIds \cup {UserC}, n \in AnyAmount :
        LET S == get_account_no(u)
            r == transfer(accounts, txns, u, v, n, "m")
        IN  exists(accounts, S) =>
            LET a == AccountOf(accounts, S).amount
            IN  /\ (S # get_account_no(v) /\ WGt(n, Zero) /\ ~WGt(n, a)) => r.err = "none"
                /\ r.err = "none" => ~WLt(AccountOf(r.accounts, S).amount, Zero)
                /\ WLt(a, Zero) => r.err \in {"InvalidTransferError", "InvalidAmountError", "InsufficientBalanceError"}

\* an account whose settled amount is negative (an approval applied twice
\* to a withdrawal) and whose transfer of 1 is refused
C37_Witness ==
    \E u \in UserIds :
        /\ exists(accounts, get_account_no(u))
        /\ WLt(AccountOf(accounts, get_account_no(u)).amount, Zero)
        /\ WGt(AccountOf(accounts, get_account_no(u)).amount, min_balance)
        /\ transfer(accounts, txns, u, UserC, Wide(1), "m").err = "InsufficientBalanceError"

----------------------------------------------------------------------------
(* C38: account isolation *)

\* the rows of before whose account number is not in nos are the same in
\* after
OthersUnchanged(before, after, nos) ==
    \A i \in DOMAIN before :
        before[i].account_no \notin nos => (i \in DOMAIN after /\ after[i] = before[i])

\* C38: on every reachable ledger, a successful deposit, withdraw, request
\* or donate, and a successful approve or deny of such a transaction, change
\* the row of the transaction's receiver, add no row and leave every other
\* row as it was; a successful transfer changes the sender's and the
\* receiver's rows and leaves every other row as it was.
C38_AccountIsolation ==
    /\ \A type \in {"deposit", "request", "withdraw", "donate"}, u \in AnyUser, n \in {Wide(1), Wide(2)} :
        LET no == get_account_no(u)
            r == Created(type, accounts, txns, u, n, "m")
        IN  r.err = "none" =>
            /\ Len(r.accounts) = Len(accounts)
            /\ OthersUnchanged(accounts, r.accounts, {no})
            /\ AccountOf(r.accounts, no) # AccountOf(accounts, no)
    /\ \A id \in DOMAIN txns :
        txns[id].type \in {"deposit", "request", "withdraw", "donate"} =>
        LET no == txns[id].receiver_account
            a == approve_transaction(accounts, txns, id, "admin")
            d == deny_transaction(accounts, txns, id, "admin")
        IN  /\ a.err = "none" =>
                /\ Len(a.accounts) = Len(accounts)
                /\ OthersUnchanged(accounts, a.accounts, {no})
                /\ AccountOf(a.accounts, no) # AccountOf(accounts, no)
            /\ d.err = "none" =>
                /\ Len(d.accounts) = Len(accounts)
                /\ OthersUnchanged(accounts, d.accounts, {no})
                /\ AccountOf(d.accounts, no) # AccountOf(accounts, no)
    /\ \A u \in AnyUser, v \in AnyUser \cup {UserC}, n \in {Wide(1), Wide(2)} :
        LET S == get_account_no(u)
            R == get_account_no(v)
            r == transfer(accounts, txns, u, v, n, "m")
        IN  r.err = "none" =>
            /\ OthersUnchanged(accounts, r.accounts, {S, R})
            /\ AccountOf(r.accounts, S) # AccountOf(accounts, S)
            /\ exists(accounts, R) => AccountOf(r.accounts, R) # AccountOf(accounts, R)
            /\ \A i \in DOMAIN r.accounts : i \notin DOMAIN accounts => r.accounts[i].account_no = R

\* two accounts, one with a settled amount, a pending transaction of the
\* other: creations, an approval and a denial on one leave the other as it
\* was
C38_Witness ==
    /\ Len(accounts) = 2
    /\ \E id \in DOMAIN txns :
        /\ txns[id].status = "pending"
        /\ approve_transaction(accounts, txns, id, "admin").err = "none"
        /\ \E i \in DOMAIN accounts :
            /\ accounts[i].account_no # txns[id].receiver_account
            /\ accounts[i].amount = Wide(1)
            /\ approve_transaction(accounts, txns, id, "admin").accounts[i] = accounts[i]

----------------------------------------------------------------------------
(* C39: approve_transaction and deposit between their store calls *)

\* the settled amount that the log accounts for
AmountFromLog(rows, account_no) ==
    WSub(WAdd(WSub(SumLog(rows, account_no, {"deposit", "request"}, "done"), SumLog(rows, account_no, {"withdraw", "donate"}, "done")), SumTransfers(rows, account_no, "receiver")), SumTransfers(rows, account_no, "sender"))

\* the pending that the log accounts for
PendingFromLog(rows, account_no) ==
    WSub(SumLog(rows, account_no, {"deposit", "request"}, "pending"), SumLog(rows, account_no, {"withdraw", "donate"}, "pending"))

\* what a transaction adds to pending when created and to amount when
\* approved
Signed(t) == IF t.type \in {"deposit", "request"} THEN t.amount ELSE WNeg(t.amount)

\* C39: approve_transaction makes two store calls, the account adjustment
\* and then the status.  In the committed state between them (the state an
\* interruption leaves) the transaction is still pending while the account's
\* amount already holds it, and approve_transaction of the same id on those
\* tables succeeds and adjusts the account again: the amount then holds the
\* transaction twice and the log once.  Likewise a deposit, request,
\* withdraw or donate commits its pending row first: in the state between
\* its store calls the row is in the log and the account's pending lacks it.
\* (Stated for the first interrupted call, the tables before it reconcile.)
C39_ApproveBetweenStoreCalls ==
    /\ \A id \in DOMAIN txns, op \in Operators :
        LET c == approve_transaction_calls(accounts, txns, id, op)
        IN  c # <<>> => (Len(c) = 2 /\ c[1].call = "update_pending_and_amount" /\ c[2].call = "update_status")
    /\ (interrupts = 0 /\ Len(inflight) = 1 /\ inflight[1].call = "update_status" /\ inflight[1].status = "done") =>
        LET id == inflight[1].txn_id
            t == txns[id]
            no == t.receiver_account
            a == approve_transaction(accounts, txns, id, inflight[1].operator)
        IN  /\ t.status = "pending"
            /\ AccountOf(accounts, no).amount = WAdd(AmountFromLog(txns, no), Signed(t))
            /\ a.err = "none"
            /\ a.txns[id].status = "done"
            /\ AccountOf(a.accounts, no).amount = WAdd(AccountOf(accounts, no).amount, Signed(t))
            /\ AccountOf(a.accounts, no).amount = WAdd(AmountFromLog(a.txns, no), Signed(t))
    /\ (interrupts = 0 /\ Len(inflight) = 1 /\ inflight[1].call = "update_pending") =>
        LET t == txns[Len(txns)]
            no == inflight[1].account_no
        IN  /\ t.status = "pending" /\ t.receiver_account = no
            /\ Signed(t) = inflight[1].pending_delta
            /\ WAdd(AccountOf(accounts, no).pending, Signed(t)) = PendingFromLog(txns, no)

\* after an interruption: a deposit or request of 1 is done once in the log
\* and held twice by its account
C39_Witness ==
    /\ interrupts = 1 /\ inflight = <<>>
    /\ \E id \in DOMAIN txns :
        /\ txns[id].type \in {"deposit", "request"} /\ txns[id].status = "done"
        /\ AmountFromLog(txns, txns[id].receiver_account) = txns[id].amount
        /\ AccountOf(accounts, txns[id].receiver_account).amount = WAdd(txns[id].amount, txns[id].amount)
        /\ AccountOf(accounts, txns[id].receiver_account).pending = WNeg(txns[id].amount)

----------------------------------------------------------------------------
(* C40: exactly-once settlement under interleaved conversations *)

\* C40: while audit and recall conversations with snapshots of their own
\* interleave with each other and with the users' calls, whole call by whole
\* call: every id of a snapshot is in the log; approve and deny of an id that
\* is still pending succeed and write its status; approve and deny of an id
\* that was settled or reversed meanwhile fail with InvalidTransactionStatus
\* and leave both tables as they are; and the accounts reconcile with the
\* log, every transaction's pending delta being settled or reversed once.
C40_ExactlyOnce ==
    /\ \A s \in SessionIds : \A k \in DOMAIN sessions[s].ids :
        LET id == sessions[s].ids[k]
            a == approve_transaction(accounts, txns, id, SessionOperator(s))
            d == deny_transaction(accounts, txns, id, SessionOperator(s))
        IN  /\ id \in DOMAIN txns
            /\ txns[id].status = "pending" =>
                /\ a.err = "none" /\ a.txns[id].status = "done"
                /\ d.err = "none" /\ d.txns[id].status = "denied"
            /\ txns[id].status # "pending" =>
                /\ a.err = "InvalidTransactionStatusError" /\ a.accounts = accounts /\ a.txns = txns
                /\ d.err = "InvalidTransactionStatusError" /\ d.accounts = accounts /\ d.txns = txns
    /\ \A i \in DOMAIN accounts :
        /\ accounts[i].pending = PendingFromLog(txns, accounts[i].account_no)
        /\ accounts[i].amount = AmountFromLog(txns, accounts[i].account_no)

\* an audit whose next id was settled or reversed by the other operator
\* while a recall of the same id waits for its confirmation
C40_Witness ==
    \E s \in SessionIds, r \in SessionIds :
        /\ sessions[s].kind = "audit" /\ sessions[r].kind = "recall"
        /\ Head(sessions[s].ids) = Head(sessions[r].ids)
        /\ txns[Head(sessions[s].ids)].status \in {"done", "denied"}
        /\ txns[Head(sessions[s].ids)].operator = <<"admin">>

====
